---- MODULE Spec2Model ----
(***************************************************************************)
(* A model of the Device Verification Kit: the streaming framer            *)
(* (transport_session.frame_stream with dvk.checksums), the shared-memory  *)
(* ring (dvk.shm) and the protocol detector (dvk_detect_protocol).         *)
(* Each subsystem has its own specification over the shared variables;     *)
(* the subsystems a specification does not run stay in their idle state.   *)
(***************************************************************************)
EXTENDS Integers, Sequences, FiniteSets, TLC

VARIABLES
    \* framer: transport_session.frame_stream
    frame_spec,      \* the frame specification (header, length, checksum)
    enable_checksum, \* frame_stream's enable_checksum argument
    stream,          \* bytes of the input stream not read yet
    buf,             \* frame_stream's local bytearray
    out_frames,      \* the frames written to out_frames, in order
    stats,           \* FramingStats
    f_pc,            \* "read" | "scan" | "done" | "raised"
    sent,            \* the valid frames the input was built from
    scenario,        \* how the input was built from sent
    \* shared-memory ring: dvk.shm
    capacity_points, \* create_ring's argument
    ctrl,            \* the control header of <base>.ctrl
    data,            \* the rows of <base>.data, slot 0..capacity-1
    clock,           \* the system clock time.time_ns() reads
    w_pc,            \* the writer in write_points: "idle" | "copy" | "index" | "seq" | "ns"
    wr,              \* write_points' locals
    next_row,        \* the number of the next row the producer makes
    last_call,       \* the last completed write_points call: batch and seq before it
    snapshots,       \* the ring (data, write_index) as create_ring and each call leave it
    r_pc,            \* the reader: "idle" | "latest" | "copy" | "seq2"
    rd,              \* the reader's locals
    r_result,        \* what the reader's last fenced read ended with
    \* detector: dvk_detect_protocol
    d_rules,         \* the UART rules of rules.yaml, in file order
    d_banner_model,  \* the model_id group the banner text binds, "" when none
    d_cands,         \* the protocol candidates with the sniff counts the sample gives
    d_args,          \* the command's arguments: model_id, allow_ambiguous
    d_refs,          \* the protocol bundles of the model document
    d_pc,            \* "start" | "done" (cmd_uart, pick_by_sniff) | "file_done" (cmd_file)
    d_out,           \* what the command ended with
    \* a call of one of the pure functions (checksums, encoder, decoder, semantics)
    fn_args,         \* the function called and its arguments
    fn_pc,           \* "call" | "done"
    fn_ret,          \* what the call returned or raised
    \* handles on the ring's shared-memory segments: dvk.shm ShmHandles
    shm_ring,        \* the ring the names <base>.ctrl and <base>.data lead to: 0 when
                     \* they do not exist, else the number of the handle that created it
    handles,         \* the handles processes hold: owner flag, ring, close_ring calls
    procs            \* the processes that run dvk.shm calls on one ring at the same
                     \* time: each one's position in its call and its locals; while
                     \* the ring is being created, also the named segments that exist

framerVars == <<frame_spec, enable_checksum, stream, buf, out_frames, stats, f_pc,
                sent, scenario>>

ringVars == <<capacity_points, ctrl, data, clock, w_pc, wr, next_row, last_call, snapshots,
              r_pc, rd, r_result>>

detVars == <<d_rules, d_banner_model, d_cands, d_args, d_refs, d_pc, d_out>>

fnVars == <<fn_args, fn_pc, fn_ret>>

handleVars == <<shm_ring, handles, procs>>

vars == <<framerVars, ringVars, detVars, fnVars, handleVars>>

-----------------------------------------------------------------------------
(* Bounds of the model *)

\* frames in one input stream
MaxFrames == 2
\* bytes of a frame body given to the encoder's checksum step
MaxBody == 3
\* bytes given to a checksum kernel
MaxKernelBytes == 4
MaxXorBytes == 3
\* processes that write to one ring at the same time
MaxWriters == 2
\* write_points calls of one of them
MaxRaceCalls == 2
\* capacity of the ring they write to
RaceCap == 2
\* capacity of a ring that is attached while it is being created
AttachCap == 2
\* iterations of a framer loop that takes no bytes
MaxSpins == 2
\* bytes of a stream whose frames may resolve to no length
MaxStallBytes == 4
MaxTransforms == 2
MaxThrottleFrames == 3
MaxSleep == 2
MaxTicks == 3
\* payload fields of a command given to the encoder
MaxFields == 2
\* the count field of a point-cloud frame
MaxCount == 3
\* bytes of the samples field of a point-cloud frame
MaxSamples == 7
\* frames and garbage pieces a frames file is built from
MaxPieces == 3
\* handles obtained on one ring name
MaxHandles == 3
\* close_ring calls on one handle
MaxCloses == 2
\* garbage bytes prepended to a stream
MaxGarbage == 3
\* bytes returned by one stream.read (the code reads 4096 at a time)
ChunkSize == 2
\* payload bytes of a dynamic-length frame
MaxPayload == 1
\* capacity of a ring
MaxCap == 4
\* rows of one write_points batch
MaxBatch == 6
\* write_points calls in one run
MaxWrites == 2
\* largest reading of the system clock
MaxClock == 2
\* capacity, and calls, of a ring that a reader reads while the writer writes
FenceCap == 2
FenceWrites == 2
\* UART rules in rules.yaml
MaxRules == 2
\* protocol candidates given to pick_by_sniff
MaxCands == 2
\* frames_ok, frames_bad_checksum and resyncs of one candidate on the sample
MaxOk == 2
MaxBad == 2
MaxResyncs == 1

-----------------------------------------------------------------------------
(* Sequences of bytes *)

Min2(a, b) == IF a <= b THEN a ELSE b

SetMin(S) == CHOOSE x \in S : \A y \in S : x <= y

\* s[:n]
Take(s, n) == SubSeq(s, 1, Min2(n, Len(s)))

\* s[n:]
Drop(s, n) == SubSeq(s, n + 1, Len(s))

\* s[-n:] for 0 < n
LastN(s, n) == IF n >= Len(s) THEN s ELSE SubSeq(s, Len(s) - n + 1, Len(s))

\* bytearray.find: the index (from 0) of the first occurrence of h in b, or -1
Find(b, h) ==
    LET hits == {i \in 0..(Len(b) - Len(h)) : SubSeq(b, i + 1, i + Len(h)) = h}
    IN  IF hits = {} THEN -1 ELSE SetMin(hits)

RECURSIVE SumBytes(_)
SumBytes(s) == IF s = <<>> THEN 0 ELSE s[1] + SumBytes(Tail(s))

RECURSIVE FromBytesLittle(_)
FromBytesLittle(raw) ==
    IF raw = <<>> THEN 0 ELSE raw[1] + 256 * FromBytesLittle(Tail(raw))

RECURSIVE FromBytesBig(_)
FromBytesBig(raw) ==
    IF raw = <<>> THEN 0
    ELSE 256 * FromBytesBig(SubSeq(raw, 1, Len(raw) - 1)) + raw[Len(raw)]

\* the n bytes of value, least significant first
ToBytesLittle(value, n) == [k \in 1..n |-> (value \div (256 ^ (k - 1))) % 256]

\* the n bytes of value, most significant first
ToBytesBig(value, n) == [k \in 1..n |-> (value \div (256 ^ (n - k))) % 256]

RECURSIVE Flatten(_)
Flatten(ss) == IF ss = <<>> THEN <<>> ELSE ss[1] \o Flatten(Tail(ss))

-----------------------------------------------------------------------------
(* dvk.checksums *)

resolve_index(index, total_len) == IF index >= 0 THEN index ELSE total_len + index

\* sum(frame[start : end + 1]) & 0xFF
checksum_sum8(frame, start, end) ==
    SumBytes(SubSeq(frame, start + 1, Min2(end + 1, Len(frame)))) % 256

\* x ^ y on bytes
Xor8(x, y) ==
    LET odd(i) == (((x \div (2 ^ i)) + (y \div (2 ^ i))) % 2) * (2 ^ i)
    IN  odd(0) + odd(1) + odd(2) + odd(3) + odd(4) + odd(5) + odd(6) + odd(7)

\* a ^ b on non-negative integers, byte by byte
RECURSIVE BitXor(_, _)
BitXor(a, b) ==
    IF a = 0 THEN b
    ELSE IF b = 0 THEN a
    ELSE Xor8(a % 256, b % 256) + 256 * BitXor(a \div 256, b \div 256)

\* x & ((1 << width) - 1); the integers of the model stay below 2^31, so the mask
\* to 32 bits leaves them as they are
mask_width(x, width) == IF width < 31 THEN x % (2 ^ width) ELSE x

\* reflect_bits(value, width)
reflect_bits(value, width) ==
    LET bit(i) == (value \div (2 ^ i)) % 2
        RECURSIVE upto(_)
        upto(i) == IF i >= width THEN 0
                   ELSE bit(i) * (2 ^ (width - 1 - i)) + upto(i + 1)
    IN  upto(0)

\* one of the 8 shifts of crc_compute's reflected (refin) loop
crc_step_reflected(crc, poly) ==
    IF crc % 2 = 1 THEN BitXor(crc \div 2, poly) ELSE crc \div 2

\* one of the 8 shifts of crc_compute's non-reflected loop
crc_step_normal(crc, poly, width) ==
    IF (crc \div (2 ^ (width - 1))) % 2 = 1
    THEN mask_width(BitXor(crc * 2, poly), width)
    ELSE mask_width(crc * 2, width)

\* crc_compute(data, width, poly, init, xorout, refin, refout); the register is
\* compared with 0 so that it is evaluated after every step, not all at the end
crc_compute(bytes, width, poly, init, xorout, refin, refout) ==
    LET RECURSIVE shifts(_, _)
        shifts(crc, k) ==
            IF k = 0 \/ crc < 0 THEN crc
            ELSE shifts(IF refin THEN crc_step_reflected(crc, poly)
                        ELSE crc_step_normal(crc, poly, width), k - 1)
        RECURSIVE over(_, _)
        over(crc, i) ==
            IF i > Len(bytes) \/ crc < 0 THEN crc
            ELSE over(shifts(IF refin THEN BitXor(crc, bytes[i])
                             ELSE BitXor(crc, mask_width(bytes[i] * (2 ^ (width - 8)),
                                                         width)), 8),
                      i + 1)
        start  == mask_width(init, width)
        looped == IF refin THEN mask_width(over(start, 1), width) ELSE over(start, 1)
        out    == IF refout THEN reflect_bits(looped, width) ELSE looped
    IN  mask_width(BitXor(out, xorout), width)

\* checksum_cs15(data)
checksum_cs15_mod16(bytes) ==
    LET padded == IF Len(bytes) % 2 = 1 THEN bytes \o <<0>> ELSE bytes
        RECURSIVE chk(_, _)
        chk(acc, i) ==
            IF i > Len(padded) THEN acc
            ELSE chk((acc * 2 + padded[i] + 256 * padded[i + 1]) % 65536, i + 2)
        chk32 == chk(0, 1)
    IN  ((chk32 % 32768) + (chk32 \div 32768)) % 32768

\* checksum_cs15(data)
checksum_cs15(bytes) ==
    LET padded == IF Len(bytes) % 2 = 1 THEN bytes \o <<0>> ELSE bytes
        RECURSIVE chk(_, _)
        chk(acc, i) ==
            IF i > Len(padded) THEN acc
            ELSE chk(acc * 2 + padded[i] + 256 * padded[i + 1], i + 2)
        chk32 == chk(0, 1)
    IN  ((chk32 % 32768) + (chk32 \div 32768)) % 32768

\* offsets below 0 read from the end of the frame, as frame[off] does in Python
RECURSIVE XorAt_from_end(_, _)
XorAt_from_end(frame, offsets) ==
    IF offsets = <<>> THEN 0
    ELSE BitXor(IF -Len(frame) <= Head(offsets) /\ Head(offsets) < Len(frame)
                THEN frame[(Head(offsets) % Len(frame)) + 1] ELSE 0,
                XorAt_from_end(frame, Tail(offsets)))

\* the XOR of frame[off] over the offsets that lie inside the frame
RECURSIVE XorAt(_, _)
XorAt(frame, offsets) ==
    IF offsets = <<>> THEN 0
    ELSE BitXor(IF 0 <= Head(offsets) /\ Head(offsets) < Len(frame)
                THEN frame[Head(offsets) + 1] ELSE 0,
                XorAt(frame, Tail(offsets)))

slice_offsets_first(sl, rel, total_len) ==
    [r \in 1..Len(rel) |-> (IF sl.from < 0 THEN total_len + sl.from ELSE sl.from) + rel[r]]

\* the offsets pos + rel one data slice of checksum_xor16_slices visits
slice_offsets(sl, rel, total_len) ==
    LET end0   == IF sl.to < 0 THEN total_len + sl.to ELSE sl.to
        start0 == IF sl.from < 0 THEN total_len + sl.from ELSE sl.from
        start  == IF start0 < 0 THEN 0 ELSE start0
        end    == IF end0 >= total_len THEN total_len - 1 ELSE end0
        npos   == ((end - start) \div sl.stride) + 1
    IN  IF sl.stride <= 0 \/ start > end THEN <<>>
        ELSE Flatten([q \in 1..npos |->
                         [r \in 1..Len(rel) |-> start + (q - 1) * sl.stride + rel[r]]])

\* checksum_xor16_slices(frame, params)
checksum_xor16_slices(frame, params) ==
    LET n       == Len(frame)
        slices  == params.data_slices
        low_off == Flatten([k \in 1..Len(slices) |->
                               slice_offsets(slices[k], slices[k].low_rel_offsets, n)])
        up_off  == Flatten([k \in 1..Len(slices) |->
                               slice_offsets(slices[k], slices[k].up_rel_offsets, n)])
        xor_low == BitXor(XorAt(frame, params.seed_low_offsets), XorAt(frame, low_off))
        xor_up  == BitXor(XorAt(frame, params.seed_up_offsets), XorAt(frame, up_off))
    IN  (xor_up * 256 + xor_low) % 65536

UintTypes == {"uint8", "uint16_le", "uint16_be", "uint32_le", "uint32_be"}

\* a width of one byte for every format that is not a 16- or 32-bit one
checksum_nbytes_lenient(store_format) ==
    CASE store_format \in {"uint16_le", "uint16_be"} -> 2
      [] store_format \in {"uint32_le", "uint32_be"} -> 4
      [] OTHER -> 1

\* _checksum_nbytes; 0 stands for the ValueError of an unsupported format
checksum_nbytes(store_format) ==
    CASE store_format = "uint8" -> 1
      [] store_format \in {"uint16_le", "uint16_be"} -> 2
      [] store_format \in {"uint32_le", "uint32_be"} -> 4
      [] OTHER -> 0

\* the store format verify_checksum falls back to
default_store_format(cs) ==
    IF cs.store_format # "" THEN cs.store_format
    ELSE IF cs.type = "sum8" THEN "uint8"
    ELSE IF cs.type \in {"cs15", "xor16_slices"} THEN "uint16_le"
    ELSE ""

\* read_expected_checksum raises ValueError
read_expected_raises(frame, store_at, store_format) ==
    LET n     == checksum_nbytes(store_format)
        start == resolve_index(store_at, Len(frame))
    IN  n = 0 \/ start < 0 \/ start + n > Len(frame)

read_expected_checksum(frame, store_at, store_format) ==
    LET n     == checksum_nbytes(store_format)
        start == resolve_index(store_at, Len(frame))
        raw   == SubSeq(frame, start + 1, start + n)
    IN  IF store_format = "uint8" THEN raw[1]
        ELSE IF store_format \in {"uint16_le", "uint32_le"} THEN FromBytesLittle(raw)
        ELSE FromBytesBig(raw)

\* checksum_spec.get("params") is a dict
has_params(cs) == "params" \in DOMAIN cs

\* checksum_spec.get("range") is a dict
has_range(cs) == "range_from" \in DOMAIN cs

\* compute_checksum raises ValueError (missing params or store_format, missing
\* range, range checks, unsupported type)
compute_raises(frame, cs) ==
    LET start == resolve_index(cs.range_from, Len(frame))
        end   == resolve_index(cs.range_to, Len(frame))
    IN  IF cs.type = "xor16_slices" THEN ~has_params(cs)
        ELSE \/ ~has_range(cs)
             \/ start < 0 \/ end < 0 \/ start >= Len(frame) \/ end >= Len(frame)
             \/ end < start
             \/ cs.type \in {"crc16", "crc32"} /\ (cs.store_format = "" \/ ~has_params(cs))
             \/ cs.type \notin {"sum8", "cs15", "crc16", "crc32"}

compute_checksum(frame, cs) ==
    LET start == resolve_index(cs.range_from, Len(frame))
        end   == resolve_index(cs.range_to, Len(frame))
        bytes == SubSeq(frame, start + 1, end + 1)
    IN  CASE cs.type = "xor16_slices" -> checksum_xor16_slices(frame, cs.params)
          [] cs.type = "sum8" -> checksum_sum8(frame, start, end)
          [] cs.type = "cs15" -> checksum_cs15(bytes)
          [] OTHER -> crc_compute(bytes, IF cs.type = "crc16" THEN 16 ELSE 32,
                                  cs.params.poly, cs.params.init, cs.params.xorout,
                                  cs.params.refin, cs.params.refout)

\* verify_checksum: "true", "false", or "raise" when it raises ValueError
verify_checksum(frame, cs) ==
    LET sf == default_store_format(cs)
    IN  IF sf = "" THEN "raise"
        ELSE IF read_expected_raises(frame, cs.store_at, sf) THEN "raise"
        ELSE IF compute_raises(frame, cs) THEN "raise"
        ELSE IF compute_checksum(frame, cs)
                  = read_expected_checksum(frame, cs.store_at, sf)
             THEN "true" ELSE "false"

-----------------------------------------------------------------------------
(* transport_session: LengthSpec and frame_stream *)

type_width(value_type) ==
    CASE value_type = "uint8" -> 1
      [] value_type \in {"uint16_le", "uint16_be"} -> 2
      [] value_type \in {"uint32_le", "uint32_be"} -> 4
      [] OTHER -> 0

\* parse_uint raises ValueError
parse_uint_raises(value_bytes, value_type) ==
    type_width(value_type) = 0 \/ Len(value_bytes) # type_width(value_type)

parse_uint(value_bytes, value_type) ==
    IF value_type = "uint8" THEN value_bytes[1]
    ELSE IF value_type \in {"uint16_le", "uint32_le"} THEN FromBytesLittle(value_bytes)
    ELSE FromBytesBig(value_bytes)

\* LengthSpec.total_length raises (through parse_uint)
total_length_raises(ls, frame_prefix) ==
    /\ ls.mode # "fixed"
    /\ Len(frame_prefix) >= ls.field_offset + ls.field_length
    /\ parse_uint_raises(
           SubSeq(frame_prefix, ls.field_offset + 1, ls.field_offset + ls.field_length),
           ls.field_type)

\* LengthSpec.total_length
total_length(ls, frame_prefix) ==
    IF ls.mode = "fixed" THEN ls.value
    ELSE IF Len(frame_prefix) < ls.field_offset + ls.field_length THEN -1
    ELSE LET raw == SubSeq(frame_prefix, ls.field_offset + 1,
                           ls.field_offset + ls.field_length)
         IN  IF ls.mode = "counted"
             THEN (parse_uint(raw, ls.field_type) * ls.unit_bytes) + ls.overhead_bytes
             ELSE parse_uint(raw, ls.field_type) + ls.overhead_bytes

\* a framer that keeps one byte less than the header is long
trim_below_header(b, header) == LastN(b, Len(header) - 1)

\* a framer that keeps the last byte only when the header is not found
trim_to_last_byte(b, header) == LastN(b, 1)

\* a framer that empties its buffer when the header is not found
clear_on_miss(b, header) == <<>>

\* the miss branch of the header search: del buf[: -len(header)]
trim_on_miss(b, header) ==
    IF Len(b) > Len(header) THEN LastN(b, Len(header)) ELSE b

\* a framer that counts every header hit as a resync
resyncs_every_hit(resyncs, idx) == resyncs + 1

\* stats.resyncs after a header hit at idx
resyncs_after_hit(resyncs, idx) == IF idx > 0 THEN resyncs + 1 ELSE resyncs

\* the frame is counted bad: checksum enabled, a checksum spec, verify false or raising
never_bad(frame, fs, enable) == FALSE

\* if enable_checksum and isinstance(checksum_spec, dict): verify_checksum returned
\* false or raised
frame_is_bad(frame, fs, enable) ==
    enable /\ fs.has_checksum /\ verify_checksum(frame, fs.checksum) # "true"

\* One iteration of frame_stream's inner while loop on buffer b.
\* next is "scan" after `continue` or a written frame, "read" after `break`.
inner_iteration(b, out, st, fs, enable) ==
    LET header == fs.header
        idx    == Find(b, header)
    IN  IF idx < 0
        THEN [buf |-> trim_on_miss(b, header), out |-> out, stats |-> st, next |-> "read"]
        ELSE
          LET b1  == Drop(b, idx)
              st1 == [st EXCEPT !.resyncs = resyncs_after_hit(st.resyncs, idx)]
          IN  IF total_length_raises(fs.length, b1)
              THEN [buf |-> b1, out |-> out, stats |-> st1, next |-> "raised"]
              ELSE
                LET total_len == total_length(fs.length, b1)
                IN  IF total_len < 0 \/ Len(b1) < total_len
                    THEN [buf |-> b1, out |-> out, stats |-> st1, next |-> "read"]
                    ELSE
                      LET frame == Take(b1, total_len)
                          b2    == Drop(b1, total_len)
                      IN  IF frame_is_bad(frame, fs, enable)
                          THEN [buf |-> b2, out |-> out,
                                stats |-> [st1 EXCEPT !.frames_bad_checksum = @ + 1],
                                next |-> "scan"]
                          ELSE [buf |-> b2, out |-> Append(out, frame),
                                stats |-> [st1 EXCEPT !.frames_ok = @ + 1],
                                next |-> "scan"]

\* chunk = stream.read(4096); a non-empty chunk is appended to buf
ReadChunk ==
    /\ f_pc = "read"
    /\ stream # <<>>
    /\ \E n \in 1..Min2(ChunkSize, Len(stream)) :
          /\ buf' = buf \o Take(stream, n)
          /\ stream' = Drop(stream, n)
          /\ stats' = [stats EXCEPT !.total_bytes = @ + n]
    /\ f_pc' = "scan"
    /\ UNCHANGED <<frame_spec, enable_checksum, out_frames, sent, scenario>>
    /\ UNCHANGED <<ringVars, detVars, fnVars, handleVars>>

\* an empty chunk: end of stream, frame_stream returns stats
ReadEnd ==
    /\ f_pc = "read"
    /\ stream = <<>>
    /\ f_pc' = "done"
    /\ UNCHANGED <<frame_spec, enable_checksum, stream, buf, out_frames, stats,
                   sent, scenario>>
    /\ UNCHANGED <<ringVars, detVars, fnVars, handleVars>>

\* one iteration of the inner loop; a loop that counts frames without taking
\* bytes is followed for MaxSpins iterations
ScanIteration ==
    /\ f_pc = "scan"
    /\ stats.frames_ok + stats.frames_bad_checksum < stats.total_bytes + MaxSpins
    /\ LET r == inner_iteration(buf, out_frames, stats, frame_spec, enable_checksum)
       IN  /\ buf' = r.buf
           /\ out_frames' = r.out
           /\ stats' = r.stats
           /\ f_pc' = r.next
    /\ UNCHANGED <<frame_spec, enable_checksum, stream, sent, scenario>>
    /\ UNCHANGED <<ringVars, detVars, fnVars, handleVars>>

-----------------------------------------------------------------------------
(* Frame specifications and input streams of the framer *)

Sum8Tail == [type |-> "sum8", range_from |-> 0, range_to |-> -2,
             store_at |-> -1, store_format |-> ""]

NoLengthField == [field_offset |-> 0, field_length |-> 0, field_type |-> "",
                  unit_bytes |-> 0]

\* header AA, fixed length 3: AA p cs
FixedSpec ==
    [name |-> "fixed", header |-> <<170>>, has_checksum |-> TRUE, checksum |-> Sum8Tail,
     length |-> [mode |-> "fixed", value |-> 3, overhead_bytes |-> 0] @@ NoLengthField]

\* a header that overlaps itself: AA AA p cs
BorderSpec ==
    [name |-> "border", header |-> <<170, 170>>, has_checksum |-> TRUE,
     checksum |-> Sum8Tail,
     length |-> [mode |-> "fixed", value |-> 4, overhead_bytes |-> 0] @@ NoLengthField]

\* header 55 AA, u8 payload length at offset 2, overhead 4: 55 AA n p.. cs
DynamicSpec ==
    [name |-> "dynamic", header |-> <<85, 170>>, has_checksum |-> TRUE,
     checksum |-> Sum8Tail,
     length |-> [mode |-> "dynamic", value |-> 0, field_offset |-> 2, field_length |-> 1,
                 field_type |-> "uint8", unit_bytes |-> 0, overhead_bytes |-> 4]]

\* header A5, u8 count at offset 1, 2 bytes a unit, overhead 3: A5 c (u u).. cs
CountedSpec ==
    [name |-> "counted", header |-> <<165>>, has_checksum |-> TRUE, checksum |-> Sum8Tail,
     length |-> [mode |-> "counted", value |-> 0, field_offset |-> 1, field_length |-> 1,
                 field_type |-> "uint8", unit_bytes |-> 2, overhead_bytes |-> 3]]

\* header AA 55, fixed length 6, sum8 over [0, 4] stored at 5: AA 55 p p p cs
ExampleSpec ==
    [name |-> "example", header |-> <<170, 85>>, has_checksum |-> TRUE,
     checksum |-> [type |-> "sum8", range_from |-> 0, range_to |-> 4, store_at |-> 5,
                   store_format |-> ""],
     length |-> [mode |-> "fixed", value |-> 6, overhead_bytes |-> 0] @@ NoLengthField]

\* header A5, u16 count at offset 1, 2 bytes a unit, overhead 4: A5 ch cl (u u).. cs
WideSpec ==
    [name |-> "wide", header |-> <<165>>, has_checksum |-> TRUE, checksum |-> Sum8Tail,
     length |-> [mode |-> "counted", value |-> 0, field_offset |-> 1, field_length |-> 2,
                 field_type |-> "uint16_be", unit_bytes |-> 2, overhead_bytes |-> 4]]

FrameSpecs == {FixedSpec, BorderSpec, DynamicSpec, CountedSpec, ExampleSpec, WideSpec}

PayloadBytes == {0, 170}
GarbageBytes == {0, 85, 170}
CorruptBytes == {0, 1, 170}

SeqsUpTo(S, n) == UNION {[1..k -> S] : k \in 0..n}

\* the payloads a frame of fs can carry
Payloads(fs) ==
    CASE fs.name = "example" -> {<<1, 2, 3>>}
      [] fs.length.mode = "fixed" ->
           [1..(fs.length.value - Len(fs.header) - 1) -> PayloadBytes]
      [] fs.length.mode = "dynamic" -> SeqsUpTo(PayloadBytes, MaxPayload)
      [] fs.length.mode = "counted" ->
           UNION {[1..(c * fs.length.unit_bytes) -> PayloadBytes] : c \in 0..1}

\* the frame of fs that carries payload, with its sum8 in the last byte
MakeFrame(fs, payload) ==
    LET body == CASE fs.length.mode = "fixed" -> fs.header \o payload
                  [] fs.length.mode = "dynamic" ->
                       fs.header \o <<Len(payload)>> \o payload
                  [] fs.length.mode = "counted" ->
                       fs.header
                         \o ToBytesBig(Len(payload) \div fs.length.unit_bytes,
                                       fs.length.field_length)
                         \o payload
    IN  body \o <<SumBytes(body) % 256>>

\* a valid frame: starts with the header, has the length its length mode resolves
\* to, carries a correct checksum
IsValidFrame(fs, f) ==
    /\ Len(f) >= Len(fs.header)
    /\ Take(f, Len(fs.header)) = fs.header
    /\ ~total_length_raises(fs.length, f)
    /\ total_length(fs.length, f) = Len(f)
    /\ verify_checksum(f, fs.checksum) = "true"

NoScenario == [kind |-> "clean", garbage |-> <<>>, frame |-> 0, off |-> 0, val |-> 0]

Scenarios(fs, frames) ==
    {NoScenario}
    \cup {[NoScenario EXCEPT !.kind = "garbage", !.garbage = g] :
            g \in SeqsUpTo(GarbageBytes, MaxGarbage) \ {<<>>}}
    \cup {[NoScenario EXCEPT !.kind = "corrupt", !.frame = i, !.off = j, !.val = v] :
            i \in 1..Len(frames), j \in 1..4, v \in CorruptBytes}
    \cup {[NoScenario EXCEPT !.kind = "corrupt", !.frame = i, !.off = 6, !.val = 171] :
            i \in IF fs.name = "example" THEN 1..Len(frames) ELSE {}}

\* frames with byte off of frame i replaced by val
Corrupted(frames, sc) ==
    [i \in 1..Len(frames) |->
        IF sc.kind = "corrupt" /\ i = sc.frame
        THEN [frames[i] EXCEPT ![sc.off] = sc.val]
        ELSE frames[i]]

ScenarioOK(frames, sc) ==
    sc.kind = "corrupt" =>
        /\ sc.off <= Len(frames[sc.frame])
        /\ frames[sc.frame][sc.off] # sc.val

InputStream(frames, sc) == sc.garbage \o Flatten(Corrupted(frames, sc))

ZeroStats == [total_bytes |-> 0, frames_ok |-> 0, frames_bad_checksum |-> 0,
              resyncs |-> 0]

NoResult == [protocol_id |-> "", protocol_version |-> "", model_id |-> "",
             confidence |-> 0, rule_id |-> "", method |-> "none"]

NoOut == [exit_code |-> 0, best |-> NoResult, detected |-> NoResult, scored |-> <<>>,
          ambiguous |-> FALSE, sniffed |-> FALSE, appended |-> FALSE]

\* no pure function is being called
FnIdle ==
    /\ fn_args = [fn |-> "none"]
    /\ fn_pc = "done"
    /\ fn_ret = [kind |-> "none"]

\* no segment exists and no process holds a handle
HandlesIdle ==
    /\ shm_ring = 0
    /\ handles = <<>>
    /\ procs = <<>>

\* no detection is running
DetectorIdle ==
    /\ d_rules = <<>>
    /\ d_banner_model = ""
    /\ d_cands = <<>>
    /\ d_args = [model_id |-> "", allow_ambiguous |-> FALSE]
    /\ d_refs = <<>>
    /\ d_pc = "done"
    /\ d_out = NoOut

\* no ring has been created
RingIdle ==
    /\ capacity_points = 0
    /\ ctrl = [version |-> 0, capacity |-> 0, write_index |-> 0, seq |-> 0,
               last_write_ns |-> 0]
    /\ data = <<>>
    /\ clock = 0
    /\ w_pc = "idle"
    /\ wr = [rows |-> <<>>, n |-> 0, w |-> 0, i |-> 0]
    /\ next_row = 1
    /\ last_call = [rows |-> <<>>, seq0 |-> 0]
    /\ snapshots = {}
    /\ r_pc = "idle"
    /\ rd = [s1 |-> 0, max_points |-> 0, slots |-> <<>>, copy |-> <<>>]
    /\ r_result = [kind |-> "none", copy |-> <<>>, max_points |-> 0]

FramerInit ==
    /\ RingIdle
    /\ DetectorIdle
    /\ FnIdle
    /\ HandlesIdle
    /\ frame_spec \in FrameSpecs
    /\ enable_checksum = TRUE
    /\ \E ps \in SeqsUpTo(Payloads(frame_spec), MaxFrames) :
          sent = [i \in 1..Len(ps) |-> MakeFrame(frame_spec, ps[i])]
    /\ scenario \in {sc \in Scenarios(frame_spec, sent) : ScenarioOK(sent, sc)}
    /\ stream = InputStream(sent, scenario)
    /\ buf = <<>>
    /\ out_frames = <<>>
    /\ stats = ZeroStats
    /\ f_pc = "read"

FramerNext == ReadChunk \/ ReadEnd \/ ScanIteration

FramerSpec == FramerInit /\ [][FramerNext]_vars

\* FixedSpec with a checksum type verify_checksum raises on
UnknownSumSpec == [FixedSpec EXCEPT !.name = "unknown_sum", !.checksum.type = "md5"]

\* DynamicSpec with a one-byte length field declared uint16_le
MistypedSpec == [DynamicSpec EXCEPT !.name = "mistyped", !.length.field_type = "uint16_le"]

FaultSpecs == {UnknownSumSpec, MistypedSpec}

\* frame_stream on the streams of FramerInit, under a protocol whose checksum or
\* length field raises
FaultInit ==
    /\ RingIdle
    /\ DetectorIdle
    /\ FnIdle
    /\ HandlesIdle
    /\ frame_spec \in FaultSpecs
    /\ enable_checksum = TRUE
    /\ \E ps \in SeqsUpTo(Payloads(frame_spec), MaxFrames) :
          sent = [i \in 1..Len(ps) |-> MakeFrame(frame_spec, ps[i])]
    /\ scenario \in {sc \in Scenarios(frame_spec, sent) : ScenarioOK(sent, sc)}
    /\ stream = InputStream(sent, scenario)
    /\ buf = <<>>
    /\ out_frames = <<>>
    /\ stats = ZeroStats
    /\ f_pc = "read"

FaultSpec == FaultInit /\ [][FramerNext]_vars

\* frame_stream on the streams of FramerInit under the protocols with a two-byte
\* header, which a read can split
ChunkInit ==
    /\ RingIdle
    /\ DetectorIdle
    /\ FnIdle
    /\ HandlesIdle
    /\ frame_spec \in {BorderSpec, DynamicSpec}
    /\ enable_checksum = TRUE
    /\ \E ps \in SeqsUpTo(Payloads(frame_spec), MaxFrames) :
          sent = [i \in 1..Len(ps) |-> MakeFrame(frame_spec, ps[i])]
    /\ scenario \in {sc \in Scenarios(frame_spec, sent) : ScenarioOK(sent, sc)}
    /\ stream = InputStream(sent, scenario)
    /\ buf = <<>>
    /\ out_frames = <<>>
    /\ stats = ZeroStats
    /\ f_pc = "read"

ChunkSpec == ChunkInit /\ [][FramerNext]_vars

\* DynamicSpec with no overhead: the length field is the whole frame length
BareSpec == [DynamicSpec EXCEPT !.name = "bare", !.length.overhead_bytes = 0]

\* a fixed length of 0
ZeroSpec == [BorderSpec EXCEPT !.name = "zero", !.length.value = 0]

StallBytes == {0, 1, 85, 170}

\* frame_stream on every short stream, under protocols whose resolved total
\* length can be 0 or below the header length
StallInit ==
    /\ RingIdle
    /\ DetectorIdle
    /\ FnIdle
    /\ HandlesIdle
    /\ frame_spec \in {BareSpec, ZeroSpec}
    /\ enable_checksum \in BOOLEAN
    /\ sent = <<>>
    /\ scenario = NoScenario
    /\ stream \in SeqsUpTo(StallBytes, MaxStallBytes)
    /\ buf = <<>>
    /\ out_frames = <<>>
    /\ stats = ZeroStats
    /\ f_pc = "read"

StallSpec == StallInit /\ [][FramerNext]_vars

-----------------------------------------------------------------------------
(* dvk.shm: the shared-memory ring *)

\* no stream is being framed
FramerIdle ==
    /\ frame_spec = FixedSpec
    /\ enable_checksum = TRUE
    /\ stream = <<>>
    /\ buf = <<>>
    /\ out_frames = <<>>
    /\ stats = ZeroStats
    /\ f_pc = "done"
    /\ sent = <<>>
    /\ scenario = NoScenario

\* create_ring(base_name, capacity_points), capacity_points > 0
create_ring(cap) ==
    /\ capacity_points = cap
    /\ ctrl = [version |-> 1, capacity |-> cap, write_index |-> 0, seq |-> 0,
               last_write_ns |-> 0]
    /\ data = [j \in 0..(cap - 1) |-> 0]

\* write_points with n >= cap that forgets to restart at slot 0
start_index_kept(n, cap, w) == w

\* write_points: the slot the first row kept of the batch goes to
start_index(n, cap, w) == IF n >= cap THEN 0 ELSE w

\* write_points: the rows kept of a batch, rows[-cap:] when n >= cap
kept_rows(rows, cap) == IF Len(rows) >= cap THEN LastN(rows, cap) ELSE rows

\* a copy that stops at the last slot instead of wrapping to slot 0
dest_slot_clamped(w, n, cap, i) == Min2(w + i, cap - 1)

\* write_points: the slot row i (from 0) of the n kept rows is copied to, by
\* h.data[w:end] = rows, or h.data[w:cap] = rows[:first]; h.data[0:end-cap] = rows[first:]
dest_slot(w, n, cap, i) ==
    IF w + n <= cap THEN w + i
    ELSE IF i < cap - w THEN w + i
    ELSE i - (cap - w)

\* a write index that is not reduced modulo the capacity
write_index_unwrapped(w, n, cap) == w + n

\* write_points: the value stored in seq, given the value read
seq_after(seq) == seq + 1

\* write_points: the new write_index
new_write_index(w, n, cap) == (w + n) % cap

\* a read that always copies from slot 0 on
latest_slots_from_zero(cap, max_points, w) ==
    IF max_points <= 0 THEN <<>> ELSE [k \in 1..Min2(max_points, cap) |-> k - 1]

\* read_latest: the slots it copies, in order, given write_index w
latest_slots(cap, max_points, w) ==
    LET m     == Min2(max_points, cap)
        start == (w - m) % cap
    IN  IF max_points <= 0 THEN <<>>
        ELSE IF start < w THEN [k \in 1..(w - start) |-> start + k - 1]
        ELSE [k \in 1..(cap - start) |-> start + k - 1] \o [k \in 1..w |-> k - 1]

\* read_latest on a ring nobody writes
read_latest(d, cap, max_points, w) ==
    LET sl == latest_slots(cap, max_points, w)
    IN  [k \in 1..Len(sl) |-> d[sl[k]]]

Snapshot == [data |-> data, write_index |-> ctrl.write_index]

\* the ring as a write_points call of the kept rows, started on data d at w, leaves it
after_call(d, rows, n, w, cap) ==
    [data |-> [j \in 0..(cap - 1) |->
                  IF \E i \in 0..(n - 1) : dest_slot(w, n, cap, i) = j
                  THEN rows[(CHOOSE i \in 0..(n - 1) : dest_slot(w, n, cap, i) = j) + 1]
                  ELSE d[j]],
     write_index |-> new_write_index(w, n, cap)]

\* the producer calls write_points(h, rows) with a batch of n rows
WriteBegin(n, maxWrites) ==
    /\ w_pc = "idle"
    /\ ctrl.seq < maxWrites
    /\ LET rows == [k \in 1..n |-> next_row + k - 1]
           cap  == ctrl.capacity
       IN  /\ next_row' = next_row + n
           /\ IF n <= 0
              THEN UNCHANGED <<w_pc, wr, last_call, snapshots>>
              ELSE /\ wr' = [rows |-> kept_rows(rows, cap),
                             n    |-> Len(kept_rows(rows, cap)),
                             w    |-> start_index(n, cap, ctrl.write_index),
                             i    |-> 0]
                   /\ last_call' = [rows |-> rows, seq0 |-> ctrl.seq]
                   /\ snapshots' = snapshots \cup
                         {after_call(data, kept_rows(rows, cap), Len(kept_rows(rows, cap)),
                                     start_index(n, cap, ctrl.write_index), cap)}
                   /\ w_pc' = "copy"
    /\ UNCHANGED <<capacity_points, ctrl, data, clock, r_pc, rd, r_result>>
    /\ UNCHANGED <<framerVars, detVars, fnVars, handleVars>>

\* one row of the slice assignments reaches the shared data
WriteCopyRow ==
    /\ w_pc = "copy"
    /\ wr.i < wr.n
    /\ data' = [data EXCEPT ![dest_slot(wr.w, wr.n, ctrl.capacity, wr.i)] = wr.rows[wr.i + 1]]
    /\ wr' = [wr EXCEPT !.i = @ + 1]
    /\ w_pc' = IF wr.i + 1 = wr.n THEN "index" ELSE "copy"
    /\ UNCHANGED <<capacity_points, ctrl, clock, next_row, last_call, snapshots,
                   r_pc, rd, r_result>>
    /\ UNCHANGED <<framerVars, detVars, fnVars, handleVars>>

\* h.ctrl["write_index"][0] = (w + n) % cap
WriteIndex ==
    /\ w_pc = "index"
    /\ ctrl' = [ctrl EXCEPT !.write_index = new_write_index(wr.w, wr.n, ctrl.capacity)]
    /\ w_pc' = "seq"
    /\ UNCHANGED <<capacity_points, data, clock, wr, next_row, last_call, snapshots,
                   r_pc, rd, r_result>>
    /\ UNCHANGED <<framerVars, detVars, fnVars, handleVars>>

\* h.ctrl["seq"][0] = int(h.ctrl["seq"][0]) + 1
WriteSeq ==
    /\ w_pc = "seq"
    /\ ctrl' = [ctrl EXCEPT !.seq = @ + 1]
    /\ w_pc' = "ns"
    /\ UNCHANGED <<capacity_points, data, clock, wr, next_row, last_call, snapshots,
                   r_pc, rd, r_result>>
    /\ UNCHANGED <<framerVars, detVars, fnVars, handleVars>>

\* h.ctrl["last_write_ns"][0] = time.time_ns(); write_points returns
WriteNs ==
    /\ w_pc = "ns"
    /\ ctrl' = [ctrl EXCEPT !.last_write_ns = clock]
    /\ w_pc' = "idle"
    /\ UNCHANGED <<capacity_points, data, clock, wr, next_row, last_call, snapshots,
                   r_pc, rd, r_result>>
    /\ UNCHANGED <<framerVars, detVars, fnVars, handleVars>>

\* time passes on the system clock
ClockTick ==
    /\ clock < MaxClock
    /\ clock' = clock + 1
    /\ UNCHANGED <<capacity_points, ctrl, data, w_pc, wr, next_row, last_call, snapshots,
                   r_pc, rd, r_result>>
    /\ UNCHANGED <<framerVars, detVars, fnVars, handleVars>>

\* the system clock is set back (time.time_ns() reads the settable real-time clock)
ClockSetBack ==
    /\ clock > 0
    /\ \E t \in 0..(clock - 1) : clock' = t
    /\ UNCHANGED <<capacity_points, ctrl, data, w_pc, wr, next_row, last_call, snapshots,
                   r_pc, rd, r_result>>
    /\ UNCHANGED <<framerVars, detVars, fnVars, handleVars>>

RingInit ==
    /\ FramerIdle
    /\ DetectorIdle
    /\ FnIdle
    /\ HandlesIdle
    /\ \E cap \in 1..MaxCap : create_ring(cap)
    /\ clock \in 0..MaxClock
    /\ w_pc = "idle"
    /\ wr = [rows |-> <<>>, n |-> 0, w |-> 0, i |-> 0]
    /\ next_row = 1
    /\ last_call = [rows |-> <<>>, seq0 |-> 0]
    /\ snapshots = {Snapshot}
    /\ r_pc = "idle"
    /\ rd = [s1 |-> 0, max_points |-> 0, slots |-> <<>>, copy |-> <<>>]
    /\ r_result = [kind |-> "none", copy |-> <<>>, max_points |-> 0]

RingNext ==
    \/ \E n \in 0..MaxBatch : WriteBegin(n, MaxWrites)
    \/ WriteCopyRow
    \/ WriteIndex
    \/ WriteSeq
    \/ WriteNs
    \/ ClockTick
    \/ ClockSetBack

\* one producer writes batches to a ring; the system clock runs
RingSpec == RingInit /\ [][RingNext]_vars

\* the reader reads seq before the copy
ReaderBegin(m) ==
    /\ r_pc = "idle"
    /\ rd' = [s1 |-> ctrl.seq, max_points |-> m, slots |-> <<>>, copy |-> <<>>]
    /\ r_pc' = "latest"
    /\ UNCHANGED <<capacity_points, ctrl, data, clock, w_pc, wr, next_row, last_call,
                   snapshots, r_result>>
    /\ UNCHANGED <<framerVars, detVars, fnVars, handleVars>>

\* read_latest reads capacity and write_index and fixes the slices it will copy
ReadLatestStart ==
    /\ r_pc = "latest"
    /\ rd' = [rd EXCEPT !.slots = latest_slots(ctrl.capacity, rd.max_points,
                                               ctrl.write_index)]
    /\ r_pc' = "copy"
    /\ UNCHANGED <<capacity_points, ctrl, data, clock, w_pc, wr, next_row, last_call,
                   snapshots, r_result>>
    /\ UNCHANGED <<framerVars, detVars, fnVars, handleVars>>

\* one row of h.data[...].copy() is read from the shared data
ReadCopyRow ==
    /\ r_pc = "copy"
    /\ Len(rd.copy) < Len(rd.slots)
    /\ rd' = [rd EXCEPT !.copy = Append(@, data[rd.slots[Len(rd.copy) + 1]])]
    /\ r_pc' = IF Len(rd.copy) + 1 = Len(rd.slots) THEN "seq2" ELSE "copy"
    /\ UNCHANGED <<capacity_points, ctrl, data, clock, w_pc, wr, next_row, last_call,
                   snapshots, r_result>>
    /\ UNCHANGED <<framerVars, detVars, fnVars, handleVars>>

\* the reader reads seq again: it accepts the copy when seq is unchanged, else retries
ReaderCheck ==
    /\ r_pc = "seq2"
    /\ r_result' = [kind |-> IF ctrl.seq = rd.s1 THEN "accepted" ELSE "retry",
                    copy |-> rd.copy, max_points |-> rd.max_points]
    /\ r_pc' = "idle"
    /\ UNCHANGED <<capacity_points, ctrl, data, clock, w_pc, wr, next_row, last_call,
                   snapshots, rd>>
    /\ UNCHANGED <<framerVars, detVars, fnVars, handleVars>>

FenceInit ==
    /\ FramerIdle
    /\ DetectorIdle
    /\ FnIdle
    /\ HandlesIdle
    /\ \E cap \in 1..FenceCap : create_ring(cap)
    /\ clock = 0
    /\ w_pc = "idle"
    /\ wr = [rows |-> <<>>, n |-> 0, w |-> 0, i |-> 0]
    /\ next_row = 1
    /\ last_call = [rows |-> <<>>, seq0 |-> 0]
    /\ snapshots = {Snapshot}
    /\ r_pc = "idle"
    /\ rd = [s1 |-> 0, max_points |-> 0, slots |-> <<>>, copy |-> <<>>]
    /\ r_result = [kind |-> "none", copy |-> <<>>, max_points |-> 0]

FenceNext ==
    \/ \E n \in 1..(FenceCap + 1) : WriteBegin(n, FenceWrites)
    \/ WriteCopyRow
    \/ WriteIndex
    \/ WriteSeq
    \/ WriteNs
    \/ \E m \in 1..ctrl.capacity : ReaderBegin(m)
    \/ ReadLatestStart
    \/ ReadCopyRow
    \/ ReaderCheck

\* one producer writes while one reader reads with the seq fence
FenceSpec == FenceInit /\ [][FenceNext]_vars

\* read_latest(h, max_points) between two write_points calls
ReadLatest(m) ==
    /\ w_pc = "idle"
    /\ r_result' = [kind |-> "latest",
                    copy |-> read_latest(data, ctrl.capacity, m, ctrl.write_index),
                    max_points |-> m]
    /\ UNCHANGED <<capacity_points, ctrl, data, clock, w_pc, wr, next_row, last_call,
                   snapshots, r_pc, rd>>
    /\ UNCHANGED <<framerVars, detVars, fnVars, handleVars>>

QuietInit ==
    /\ FramerIdle
    /\ DetectorIdle
    /\ FnIdle
    /\ HandlesIdle
    /\ \E cap \in 1..MaxCap : create_ring(cap)
    /\ clock = 0
    /\ w_pc = "idle"
    /\ wr = [rows |-> <<>>, n |-> 0, w |-> 0, i |-> 0]
    /\ next_row = 1
    /\ last_call = [rows |-> <<>>, seq0 |-> 0]
    /\ snapshots = {}
    /\ r_pc = "idle"
    /\ rd = [s1 |-> 0, max_points |-> 0, slots |-> <<>>, copy |-> <<>>]
    /\ r_result = [kind |-> "none", copy |-> <<>>, max_points |-> 0]

QuietNext ==
    \/ \E n \in 0..MaxBatch : WriteBegin(n, MaxWrites)
    \/ WriteCopyRow
    \/ WriteIndex
    \/ WriteSeq
    \/ WriteNs
    \/ \E m \in -1..(MaxCap + 1) : ReadLatest(m)

\* one producer writes batches; a reader calls read_latest between the calls
QuietSpec == QuietInit /\ [][QuietNext]_vars

-----------------------------------------------------------------------------
(* Claims about the ring *)

\* C4 (SHM overwrite): a write_points call with n >= capacity rows returns with the
\* last capacity rows of the batch in order in slots 0..capacity-1, write_index = 0
\* and seq one more than before the call.
C4_ShmOverwrite ==
    (w_pc = "idle" /\ last_call.rows # <<>> /\ Len(last_call.rows) >= ctrl.capacity) =>
        LET n   == Len(last_call.rows)
            cap == ctrl.capacity
        IN  /\ \A j \in 0..(cap - 1) : data[j] = last_call.rows[n - cap + j + 1]
            /\ ctrl.write_index = 0
            /\ ctrl.seq = last_call.seq0 + 1

\* capacity 4, a batch of 6 rows after an earlier batch left write_index at 3
C4_Witness ==
    /\ w_pc = "idle" /\ ctrl.capacity = 4 /\ Len(last_call.rows) = 6
    /\ last_call.rows[1] = 4
    /\ \A j \in 0..3 : data[j] = last_call.rows[j + 3]
    /\ ctrl.write_index = 0 /\ ctrl.seq = 2

\* C5 (SHM monotonicity): over the producer's write_points calls seq never
\* decreases, every call that writes raises it by exactly 1, and last_write_ns
\* never decreases.
C5_ShmMonotonic ==
    [][/\ ctrl'.seq >= ctrl.seq
       /\ ((w_pc = "ns" /\ w_pc' = "idle") => ctrl'.seq = last_call.seq0 + 1)
       /\ ctrl'.last_write_ns >= ctrl.last_write_ns]_vars

\* C6 (ring invariant): in every state reachable from create_ring by write_points
\* calls, 0 <= write_index < capacity and capacity is the value given at creation.
C6_RingInvariant ==
    /\ 0 <= ctrl.write_index
    /\ ctrl.write_index < ctrl.capacity
    /\ ctrl.capacity = capacity_points

\* a batch of exactly capacity rows and a wrapping batch have been written
C6_Witness ==
    /\ w_pc = "idle" /\ ctrl.seq = 2 /\ ctrl.capacity = 3
    /\ Len(last_call.rows) = 2 /\ ctrl.write_index = 1 /\ last_call.rows[1] = 3

\* C23 (ring write with wrap): a write_points call of 0 < n < capacity rows that
\* starts at write_index w stores row i in slot (w + i) mod capacity, changes no
\* other slot, and then sets write_index to (w + n) mod capacity.
C23_RingWriteWrap ==
    [][(Len(last_call.rows) < ctrl.capacity) =>
         /\ IF w_pc = "copy" /\ wr'.i = wr.i + 1
            THEN data' = [data EXCEPT ![(ctrl.write_index + wr.i) % ctrl.capacity] =
                                          last_call.rows[wr.i + 1]]
            ELSE data' = data
         /\ (w_pc = "copy" /\ w_pc' = "index") => wr'.i = Len(last_call.rows)
         /\ (w_pc = "index" /\ w_pc' = "seq") =>
                ctrl'.write_index =
                    (ctrl.write_index + Len(last_call.rows)) % ctrl.capacity]_vars

\* capacity 4: rows 1..3 left write_index at 3, then rows 4, 5 went to slots 3 and 0
C23_Witness ==
    /\ w_pc = "idle" /\ ctrl.capacity = 4 /\ ctrl.seq = 2
    /\ last_call.rows = <<4, 5>>
    /\ data[3] = 4 /\ data[0] = 5 /\ data[1] = 2 /\ data[2] = 3
    /\ ctrl.write_index = 1

\* C7 (seq fence): a copy the reader accepts because seq was the same before and
\* after read_latest is not torn: it equals the latest rows of the ring as
\* create_ring or some write_points call leaves it (the call in progress included).
C7_SeqFence ==
    r_result.kind = "accepted" =>
        \E sn \in snapshots :
            r_result.copy = read_latest(sn.data, ctrl.capacity, r_result.max_points,
                                        sn.write_index)

-----------------------------------------------------------------------------
(* dvk_detect_protocol.iter_frames: the detector's own framer *)

\* dvk_detect_protocol.parse_uint raises ValueError: only for an unknown type, the
\* number of bytes is not compared with the type
detect_parse_uint_raises(value_bytes, value_type) == type_width(value_type) = 0

\* dvk_detect_protocol.parse_uint: int.from_bytes of the bytes given
detect_parse_uint(value_bytes, value_type) ==
    IF value_type = "uint8" THEN value_bytes[1]
    ELSE IF value_type \in {"uint16_le", "uint32_le"} THEN FromBytesLittle(value_bytes)
    ELSE FromBytesBig(value_bytes)

\* the length field of the candidate at the head of b can be read
detect_field_ready(ls, b) ==
    /\ ls.mode # "fixed"
    /\ ls.field_offset >= 0 /\ ls.field_length > 0
    /\ Len(b) >= ls.field_offset + ls.field_length

\* iter_frames: total_len of the candidate at the head of b, -1 when unresolved
detect_total_length(ls, b) ==
    IF ls.mode = "fixed" THEN ls.value
    ELSE IF ~detect_field_ready(ls, b) THEN -1
    ELSE LET raw == SubSeq(b, ls.field_offset + 1, ls.field_offset + ls.field_length)
         IN  IF ls.mode = "dynamic"
             THEN detect_parse_uint(raw, ls.field_type) + ls.overhead_bytes
             ELSE (detect_parse_uint(raw, ls.field_type) * ls.unit_bytes)
                      + ls.overhead_bytes

\* if total_len <= 0 or len(buf) < total_len: break
detect_stops(total_len, b) == total_len <= 0 \/ Len(b) < total_len

\* iter_frames(sample, frame_spec, enable_checksum=True) from buffer b and the
\* counts so far: (frames_ok, frames_bad_checksum, resyncs), or the ValueError of
\* parse_uint
RECURSIVE iter_frames(_, _, _, _, _)
iter_frames(b, ok, bad, resyncs, fs) ==
    LET idx    == Find(b, fs.header)
        b1     == Drop(b, idx)
        rs1    == IF idx > 0 THEN resyncs + 1 ELSE resyncs
        counts == [kind |-> "counts", frames_ok |-> ok, frames_bad_checksum |-> bad,
                   resyncs |-> resyncs]
    IN  IF idx < 0 THEN counts
        ELSE IF detect_field_ready(fs.length, b1)
                  /\ detect_parse_uint_raises(<<>>, fs.length.field_type)
        THEN [kind |-> "raised"]
        ELSE LET total_len == detect_total_length(fs.length, b1)
             IN  IF detect_stops(total_len, b1) THEN [counts EXCEPT !.resyncs = rs1]
                 ELSE IF fs.has_checksum
                           /\ verify_checksum(Take(b1, total_len), fs.checksum) # "true"
                 THEN iter_frames(Drop(b1, total_len), ok, bad + 1, rs1, fs)
                 ELSE iter_frames(Drop(b1, total_len), ok + 1, bad, rs1, fs)

\* sniff_score_protocol calls iter_frames(sample, frame_spec, enable_checksum=True).
\* The detector and the framer are separate commands that share no state; the
\* sample is scored here once frame_stream has ended on the same bytes.
IterFrames ==
    /\ fn_pc = "call"
    /\ fn_args.fn = "iter_frames"
    /\ f_pc \in {"done", "raised"}
    /\ fn_ret' = iter_frames(fn_args.sample, 0, 0, 0, fn_args.frame_spec)
    /\ fn_pc' = "done"
    /\ UNCHANGED fn_args
    /\ UNCHANGED <<framerVars, ringVars, detVars, handleVars>>

\* frame specs with a header of two bytes, a header that overlaps itself, a length
\* field of one and of two bytes, and a length field shorter than its type
ScoreSpecs == {BorderSpec, DynamicSpec, WideSpec, MistypedSpec}

\* the streams of FramerInit, given to frame_stream and to iter_frames
ScoreInit ==
    /\ RingIdle
    /\ DetectorIdle
    /\ HandlesIdle
    /\ frame_spec \in ScoreSpecs
    /\ enable_checksum = TRUE
    /\ \E ps \in SeqsUpTo(Payloads(frame_spec), MaxFrames) :
          sent = [i \in 1..Len(ps) |-> MakeFrame(frame_spec, ps[i])]
    /\ scenario \in {sc \in Scenarios(frame_spec, sent) : ScenarioOK(sent, sc)}
    /\ stream = InputStream(sent, scenario)
    /\ buf = <<>>
    /\ out_frames = <<>>
    /\ stats = ZeroStats
    /\ f_pc = "read"
    /\ fn_args = [fn |-> "iter_frames", sample |-> stream, frame_spec |-> frame_spec]
    /\ fn_pc = "call"
    /\ fn_ret = [kind |-> "none"]

ScoreNext == FramerNext \/ IterFrames

ScoreSpec == ScoreInit /\ [][ScoreNext]_vars

-----------------------------------------------------------------------------
(* cmd_align and cmd_decode: the frame selector if_bits_v1 *)

\* bool((if_byte >> bit) & 1)
bit_set(if_byte, bit) == (if_byte \div (2 ^ bit)) % 2 = 1

\* the chain of if / elif over has_speed, has_bright, bright_u16
key_of_flags(has_speed, has_bright, bright_u16) ==
    IF ~has_speed /\ ~has_bright THEN "no_speed_dist_only"
    ELSE IF has_speed /\ ~has_bright THEN "speed_dist_only"
    ELSE IF ~has_speed /\ has_bright /\ ~bright_u16 THEN "no_speed_dist_brightness_u8"
    ELSE IF has_speed /\ has_bright /\ ~bright_u16 THEN "speed_dist_brightness_u8"
    ELSE IF ~has_speed /\ has_bright /\ bright_u16 THEN "no_speed_dist_brightness_u16"
    ELSE IF has_speed /\ has_bright /\ bright_u16 THEN "speed_dist_brightness_u16"
    ELSE "None"

\* a selector that does not apply the invert flags
if_bits_key_plain(if_byte, selector) ==
    key_of_flags(bit_set(if_byte, selector.speed_bit),
                 bit_set(if_byte, selector.brightness_bit),
                 bit_set(if_byte, selector.brightness_len_bit))

\* the key for the IF byte: each flag is its bit of the byte ^ its invert flag
if_bits_key(if_byte, selector) ==
    key_of_flags(bit_set(if_byte, selector.speed_bit) # selector.invert_speed_bit,
                 bit_set(if_byte, selector.brightness_bit) # selector.invert_brightness_bit,
                 bit_set(if_byte, selector.brightness_len_bit)
                     # selector.invert_brightness_len_bit)

\* next((f for f in frames if f.get("name") == frame_name), None), then
\* frames[0] when frame_spec is None; frames are given by their names
frame_for_key(key, selector, frames) ==
    IF key \in DOMAIN selector.frames /\ \E k \in 1..Len(frames) : frames[k] = selector.frames[key]
    THEN selector.frames[key]
    ELSE frames[1]

\* the position of the IF byte in the sample (from 0), -1 when the sample has
\* none: cmd_align counts if_offset from the first header, cmd_decode from the
\* start of frames.bin
if_position(fn, sample, header, selector) ==
    LET idx == IF fn = "cmd_align" THEN Find(sample, header) ELSE 0
    IN  IF idx < 0 \/ idx + selector.if_offset >= Len(sample) THEN -1
        ELSE idx + selector.if_offset

\* cmd_align / cmd_decode with --auto-frame-by-if and no --frame-name: the frame
\* the command goes on with
SelectFrame ==
    /\ fn_pc = "call"
    /\ fn_args.fn \in {"cmd_align", "cmd_decode"}
    /\ LET at  == if_position(fn_args.fn, fn_args.sample, fn_args.header,
                              fn_args.selector)
           key == IF at < 0 THEN "None"
                  ELSE if_bits_key(fn_args.sample[at + 1], fn_args.selector)
       IN  fn_ret' = [kind |-> "frame", key |-> key,
                      frame |-> IF at < 0 THEN fn_args.frames[1]
                                ELSE frame_for_key(key, fn_args.selector, fn_args.frames)]
    /\ fn_pc' = "done"
    /\ UNCHANGED fn_args
    /\ UNCHANGED <<framerVars, ringVars, detVars, handleVars>>

SelectorKeys ==
    {"no_speed_dist_only", "speed_dist_only", "no_speed_dist_brightness_u8",
     "speed_dist_brightness_u8", "no_speed_dist_brightness_u16",
     "speed_dist_brightness_u16"}

\* frames of the protocol, by name: a first frame and one frame for five of the keys
SelectorFrames ==
    <<"base", "no_speed_dist_only", "speed_dist_only", "no_speed_dist_brightness_u8",
      "speed_dist_brightness_u8", "no_speed_dist_brightness_u16">>

\* selector.frames: every key mapped to the frame of its name (one of which the
\* protocol does not have), only the keys with speed mapped, nothing mapped
SelectorMaps ==
    {[k \in SelectorKeys |-> k],
     [k \in {"speed_dist_only", "speed_dist_brightness_u8"} |-> k],
     [k \in {} |-> ""]}

Selectors ==
    {[if_offset |-> 2, brightness_bit |-> 0, speed_bit |-> 1, brightness_len_bit |-> 2,
      invert_brightness_bit |-> ib, invert_speed_bit |-> is,
      invert_brightness_len_bit |-> il, frames |-> map] :
        ib \in BOOLEAN, is \in BOOLEAN, il \in BOOLEAN, map \in SelectorMaps}

\* a whole frame A5 01 IF, alone, behind a garbage byte, or cut before the IF byte
SelectorSamples ==
    UNION {{<<165, 1, b>>, <<0, 165, 1, b>>} : b \in 0..255} \cup {<<165, 1>>, <<0, 0, 0>>}

SelectorInit ==
    /\ fn_pc = "call"
    /\ fn_ret = [kind |-> "none"]
    /\ \E fn \in {"cmd_align", "cmd_decode"}, sample \in SelectorSamples,
          selector \in Selectors :
          fn_args = [fn |-> fn, sample |-> sample, header |-> <<165>>,
                     selector |-> selector, frames |-> SelectorFrames]
    /\ FramerIdle /\ RingIdle /\ DetectorIdle /\ HandlesIdle

SelectorNext == SelectFrame

\* the frame selector on every IF byte and every setting of the invert flags
SelectorSpec == SelectorInit /\ [][SelectorNext]_vars

-----------------------------------------------------------------------------
(* dvk_encode: the encoder *)

IntTypes == {"uint8", "int8", "uint16_le", "uint16_be", "int16_le", "int16_be",
             "uint32_le", "uint32_be", "int32_le", "int32_be"}

FloatTypes == {"float32_le", "float32_be"}

\* the bytes struct.pack and struct.unpack use for a scalar type
scalar_size(value_type) ==
    CASE value_type \in {"uint8", "int8"} -> 1
      [] value_type \in {"uint16_le", "uint16_be", "int16_le", "int16_be"} -> 2
      [] OTHER -> 4

IsLittle(value_type) ==
    value_type \in {"uint8", "int8", "uint16_le", "int16_le", "uint32_le", "int32_le",
                    "float32_le"}

\* Python numbers are fractions num / den; an int has den = 1 (1 == 1.0 in Python)
PyInt(v) == [num |-> v, den |-> 1]

\* a Python float that is a fraction num / den, in lowest terms
RECURSIVE Fraction(_, _)
Fraction(num, den) ==
    IF num = 0 THEN [num |-> 0, den |-> 1]
    ELSE IF num % 2 = 0 /\ den % 2 = 0 THEN Fraction(num \div 2, den \div 2)
    ELSE IF num % 5 = 0 /\ den % 5 = 0 THEN Fraction(num \div 5, den \div 5)
    ELSE [num |-> num, den |-> den]

\* the exponent e with 2^e <= num/den < 2^(e+1), for num/den between 2^-8 and 2^8
float_exponent(num, den) ==
    CHOOSE e \in -8..7 :
        IF e >= 0 THEN (2 ^ e) * den <= num /\ num < (2 ^ (e + 1)) * den
        ELSE den <= num * (2 ^ (0 - e)) /\ num * (2 ^ (0 - e)) < 2 * den

\* the IEEE-754 binary32 bit pattern struct.pack("f", x) stores for x = num/den >= 0:
\* the 24-bit significand is rounded to nearest, ties to even
float32_bits(x) ==
    IF x.num = 0 THEN 0
    ELSE LET e0    == float_exponent(x.num, x.den)
             scale == x.num * (2 ^ (23 - e0))
             q     == scale \div x.den
             r     == scale % x.den
             m0    == IF 2 * r > x.den \/ (2 * r = x.den /\ q % 2 = 1) THEN q + 1 ELSE q
             e     == IF m0 = 2 ^ 24 THEN e0 + 1 ELSE e0
             m     == IF m0 = 2 ^ 24 THEN 2 ^ 23 ELSE m0
         IN  (e + 127) * (2 ^ 23) + (m - (2 ^ 23))

\* the float struct.unpack("f", ...) returns for a bit pattern with sign bit 0
float32_value(bits) ==
    IF bits = 0 THEN Fraction(0, 1)
    ELSE LET e == (bits \div (2 ^ 23)) - 127
             m == (2 ^ 23) + (bits % (2 ^ 23))
         IN  IF e >= 0 THEN Fraction(m * (2 ^ e), 2 ^ 23)
             ELSE Fraction(m, 2 ^ (23 - e))

\* encode_value(value, value_type) for the scalar types: struct.pack of the value
encode_value(value, value_type) ==
    LET n   == scalar_size(value_type)
        int == IF value_type \in FloatTypes THEN float32_bits(value) ELSE value.num
    IN  IF IsLittle(value_type) THEN ToBytesLittle(int, n) ELSE ToBytesBig(int, n)

\* encode_value raises: a type it does not know, or struct.error for a signed value
\* out of range
encode_value_raises(value, value_type) ==
    \/ value_type \notin IntTypes \cup FloatTypes \cup {"bytes"}
    \/ value_type = "int8" /\ (value.num < -128 \/ value.num > 127)
    \/ value_type \in {"int16_le", "int16_be"}
           /\ (value.num < -32768 \/ value.num > 32767)

\* build_payload(command, params): the encoded fields in the order of the payload
\* definition; "raised" when a parameter is missing
build_payload(command, params) ==
    LET fields == command.payload
    IN  IF \E k \in 1..Len(fields) : fields[k].name \notin DOMAIN params
        THEN [kind |-> "raised", error |-> "ValueError"]
        ELSE IF \E k \in 1..Len(fields) :
                    encode_value_raises(params[fields[k].name], fields[k].type)
        THEN [kind |-> "raised", error |-> "struct.error"]
        ELSE [kind |-> "payload",
              payload |-> Flatten([k \in 1..Len(fields) |->
                                      encode_value(params[fields[k].name],
                                                   fields[k].type)])]

\* build_frame up to the payload: header, length field in dynamic mode, msg_id
frame_before_checksum(fs, msg_id, payload) ==
    fs.header
      \o (IF fs.length.mode = "dynamic"
          THEN encode_value(PyInt(Len(payload)), fs.length.field_type) ELSE <<>>)
      \o encode_value(PyInt(msg_id), "uint8")
      \o payload

\* encode_checksum raises ValueError
encode_checksum_raises(store_format) == store_format \notin UintTypes

\* encode_checksum(checksum_val, store_format): struct.pack of the masked value
encode_checksum(checksum_val, store_format) ==
    CASE store_format = "uint8" -> ToBytesLittle(checksum_val, 1)
      [] store_format = "uint16_le" -> ToBytesLittle(checksum_val, 2)
      [] store_format = "uint16_be" -> ToBytesBig(checksum_val, 2)
      [] store_format = "uint32_le" -> ToBytesLittle(checksum_val, 4)
      [] store_format = "uint32_be" -> ToBytesBig(checksum_val, 4)

\* params.get(name, default) of build_frame's CRC branch
crc_param(cs, name, default) ==
    IF has_params(cs) /\ name \in DOMAIN cs.params THEN cs.params[name] ELSE default

\* build_frame from "Add checksum if specified": the frame without its checksum
\* gets the checksum appended, or the encoder raises
append_checksum(frame, cs) ==
    LET store_format == IF cs.store_format = "" THEN "uint8" ELSE cs.store_format
        checksum_len == IF store_format = "uint8" THEN 1
                        ELSE IF store_format \in {"uint16_le", "uint16_be"} THEN 2
                        ELSE 4
        total_len    == Len(frame) + checksum_len
        start        == IF cs.range_from >= 0 THEN cs.range_from
                        ELSE total_len + cs.range_from
        end          == IF cs.range_to >= 0 THEN cs.range_to ELSE total_len + cs.range_to
        checksum_val ==
            IF cs.type = "sum8"
            THEN checksum_sum8(frame, start, Min2(end, Len(frame) - 1))
            ELSE crc_compute(SubSeq(frame, start + 1, Min2(end + 1, Len(frame))),
                             IF cs.type = "crc16" THEN 16 ELSE 32,
                             crc_param(cs, "poly", 0), crc_param(cs, "init", 0),
                             crc_param(cs, "xorout", 0), crc_param(cs, "refin", FALSE),
                             crc_param(cs, "refout", FALSE))
    IN  IF "range_from" \notin DOMAIN cs THEN [kind |-> "raised", error |-> "KeyError"]
        ELSE IF cs.type \notin {"sum8", "crc16", "crc32"}
        THEN [kind |-> "raised", error |-> "ValueError"]
        ELSE IF encode_checksum_raises(store_format)
        THEN [kind |-> "raised", error |-> "ValueError"]
        ELSE [kind |-> "frame",
              frame |-> frame \o encode_checksum(checksum_val, store_format)]

\* build_frame(header, msg_id, payload, frame_spec)
build_frame(fs, msg_id, payload) ==
    IF fs.has_checksum
    THEN append_checksum(frame_before_checksum(fs, msg_id, payload), fs.checksum)
    ELSE [kind |-> "frame", frame |-> frame_before_checksum(fs, msg_id, payload)]

(* dvk_decode: the decoder *)

\* the bytes of a sequence, last first
ReverseBytes(bytes) == [k \in 1..Len(bytes) |-> bytes[Len(bytes) + 1 - k]]

byte_unsigned(b) == b

\* a byte read as a signed 8-bit integer
signed_byte(b) == IF b >= 128 THEN b - 256 ELSE b

\* the two's-complement integer of a byte string, least significant byte first
from_signed_little(bytes) ==
    LET n == Len(bytes)
    IN  FromBytesLittle(SubSeq(bytes, 1, n - 1)) + (256 ^ (n - 1)) * signed_byte(bytes[n])

\* parse_value(data, value_type): struct.unpack of the first bytes, None when the
\* data is shorter than the type, the hex text (here the bytes) for other types
parse_value(field_bytes, value_type) ==
    IF value_type \notin IntTypes \cup FloatTypes THEN [hex |-> field_bytes]
    ELSE IF Len(field_bytes) < scalar_size(value_type) THEN [none |-> TRUE]
    ELSE LET raw    == SubSeq(field_bytes, 1, scalar_size(value_type))
             little == IF IsLittle(value_type) THEN raw ELSE ReverseBytes(raw)
         IN  CASE value_type \in FloatTypes -> float32_value(FromBytesLittle(little))
               [] value_type \in {"int8", "int16_le", "int16_be", "int32_le", "int32_be"} ->
                      PyInt(from_signed_little(little))
               [] OTHER -> PyInt(FromBytesLittle(little))

\* resolve_field_length(length_spec, record, frame_len): an int, or
\* {"ref": field, "mul": m, "add": a} resolved against the fields decoded so far
resolve_field_length(f, record) ==
    IF "ref" \notin DOMAIN f THEN f.length
    ELSE IF f.ref \in DOMAIN record THEN record[f.ref].num * f.mul + f.add
    ELSE 0

\* decode_frame(frame, frame_spec, record): "False" at the first field that does
\* not fit the frame, else the record of the fields' values
RECURSIVE decode_fields(_, _, _)
decode_fields(frame, fields, record) ==
    IF fields = <<>> THEN [ok |-> TRUE, record |-> record]
    ELSE LET f      == fields[1]
             offset == IF f.offset < 0 THEN Len(frame) + f.offset ELSE f.offset
             length == resolve_field_length(f, record)
         IN  IF offset < 0 \/ offset + length > Len(frame)
             THEN [ok |-> FALSE, record |-> record]
             ELSE decode_fields(frame, Tail(fields),
                      [n \in DOMAIN record \cup {f.name} |->
                          IF n = f.name
                          THEN parse_value(SubSeq(frame, offset + 1, offset + length),
                                           f.type)
                          ELSE record[n]])

decode_frame(frame, fields) == decode_fields(frame, fields, <<>>)

\* the encoder appends the checksum and verify_checksum is run on the frame
AppendAndVerify ==
    /\ fn_pc = "call"
    /\ fn_args.fn = "checksum_round_trip"
    /\ LET built == append_checksum(fn_args.body, fn_args.cs)
       IN  fn_ret' = IF built.kind = "raised" THEN built
                     ELSE [kind |-> "frame", frame |-> built.frame,
                           verify |-> verify_checksum(built.frame, fn_args.cs)]
    /\ fn_pc' = "done"
    /\ UNCHANGED fn_args
    /\ UNCHANGED <<framerVars, ringVars, detVars, handleVars>>

(* Inputs of the checksum round trip *)

Sum8Wide == [type |-> "sum8", store_format |-> "uint16_be", store_at |-> -2,
             range_from |-> 0, range_to |-> -3]

Cs15Tail == [type |-> "cs15", store_format |-> "", store_at |-> -2,
             range_from |-> 0, range_to |-> -3]

Xor16Tail ==
    [type |-> "xor16_slices", store_format |-> "", store_at |-> -2,
     params |-> [seed_low_offsets |-> <<0>>, seed_up_offsets |-> <<1>>,
                 data_slices |-> <<[from |-> 2, to |-> -3, stride |-> 2,
                                    low_rel_offsets |-> <<0>>,
                                    up_rel_offsets |-> <<1>>]>>]]

\* CRC-16/CCITT-FALSE
Crc16Ccitt ==
    [type |-> "crc16", store_format |-> "uint16_be", store_at |-> -2,
     range_from |-> 0, range_to |-> -3,
     params |-> [poly |-> 4129, init |-> 65535, xorout |-> 0,
                 refin |-> FALSE, refout |-> FALSE]]

\* CRC-16/MODBUS with the reflected polynomial 0xA001
Crc16Modbus ==
    [type |-> "crc16", store_format |-> "uint16_le", store_at |-> -2,
     range_from |-> 0, range_to |-> -3,
     params |-> [poly |-> 40961, init |-> 65535, xorout |-> 0,
                 refin |-> TRUE, refout |-> FALSE]]

\* a CRC-16 with reflected output and a final XOR
Crc16RefOut ==
    [type |-> "crc16", store_format |-> "uint16_le", store_at |-> -2,
     range_from |-> 1, range_to |-> -3,
     params |-> [poly |-> 32773, init |-> 0, xorout |-> 65535,
                 refin |-> FALSE, refout |-> TRUE]]

\* a CRC-32 in the reflected loop with the polynomial 0x04C11DB7 as is
Crc32Tail ==
    [type |-> "crc32", store_format |-> "uint32_le", store_at |-> -4,
     range_from |-> 0, range_to |-> -5,
     params |-> [poly |-> 79764919, init |-> 0, xorout |-> 0,
                 refin |-> TRUE, refout |-> FALSE]]

ChecksumSpecs == {Sum8Tail, Sum8Wide, Cs15Tail, Xor16Tail, Crc16Ccitt, Crc16Modbus,
                  Crc16RefOut, Crc32Tail}

BodyBytes == {0, 1, 170, 255}

ChecksumInit ==
    /\ FramerIdle
    /\ RingIdle
    /\ DetectorIdle
    /\ HandlesIdle
    /\ \E cs \in ChecksumSpecs, body \in SeqsUpTo(BodyBytes, MaxBody) :
          /\ Len(body) >= 2
          /\ fn_args = [fn |-> "checksum_round_trip", cs |-> cs, body |-> body]
    /\ fn_pc = "call"
    /\ fn_ret = [kind |-> "none"]

ChecksumNext == AppendAndVerify

\* the encoder's checksum step followed by verify_checksum, on every checksum
\* specification and frame body
ChecksumSpec == ChecksumInit /\ [][ChecksumNext]_vars

\* a call of one checksum kernel: checksum_cs15(data) or
\* checksum_xor16_slices(frame, params)
CallKernel ==
    /\ fn_pc = "call"
    /\ fn_args.fn \in {"checksum_cs15", "checksum_xor16_slices"}
    /\ fn_ret' = [kind |-> "value",
                  value |-> IF fn_args.fn = "checksum_cs15"
                            THEN checksum_cs15(fn_args.bytes)
                            ELSE checksum_xor16_slices(fn_args.bytes, fn_args.params)]
    /\ fn_pc' = "done"
    /\ UNCHANGED fn_args
    /\ UNCHANGED <<framerVars, ringVars, detVars, handleVars>>

KernelBytes == {0, 1, 2, 17, 34, 51, 255}

\* seeds at 0 and 1 and one slice over [2, 3]
Xor16Params(stride, up_rel) ==
    [seed_low_offsets |-> <<0>>, seed_up_offsets |-> <<1>>,
     data_slices |-> <<[from |-> 2, to |-> 3, stride |-> stride,
                        low_rel_offsets |-> <<0>>, up_rel_offsets |-> up_rel]>>]

KernelInit ==
    /\ fn_pc = "call"
    /\ fn_ret = [kind |-> "none"]
    /\ \E bytes \in SeqsUpTo(KernelBytes, MaxKernelBytes) :
          \/ fn_args = [fn |-> "checksum_cs15", bytes |-> bytes]
          \/ \E stride \in 1..2, up_rel \in {<<0>>, <<1>>} :
                fn_args = [fn |-> "checksum_xor16_slices", bytes |-> bytes,
                           params |-> Xor16Params(stride, up_rel)]
    /\ FramerIdle /\ RingIdle /\ DetectorIdle /\ HandlesIdle

KernelNext == CallKernel

\* the checksum kernels on every short byte string
KernelSpec == KernelInit /\ [][KernelNext]_vars

\* verify_checksum(frame, checksum_spec)
VerifyChecksum ==
    /\ fn_pc = "call"
    /\ fn_args.fn = "verify_checksum"
    /\ fn_ret' = [kind |-> "verdict", value |-> verify_checksum(fn_args.frame, fn_args.cs)]
    /\ fn_pc' = "done"
    /\ UNCHANGED fn_args
    /\ UNCHANGED <<framerVars, ringVars, detVars, handleVars>>

\* checksum types, "md5" being one the code does not know
VerifyTypes == {"sum8", "cs15", "crc16", "md5"}

\* store formats: none, supported ones, and two the code does not know
VerifyFormats == {"", "uint8", "uint16_le", "uint16_be", "int16_le", "uint16_xx"}

\* ranges: up to the byte before a one- or two-byte field, backwards, beyond the
\* frame, before its start
VerifyRanges == {<<0, -2>>, <<0, -3>>, <<1, 0>>, <<0, 4>>, <<-5, -1>>}

VerifySpecs ==
    {[type |-> t, store_format |-> sf, store_at |-> at, range_from |-> r[1],
      range_to |-> r[2], params |-> Crc16Ccitt.params] :
        t \in VerifyTypes, sf \in VerifyFormats, at \in {-1, -2, 0, 3, -5},
        r \in VerifyRanges}
    \cup {[type |-> t, store_format |-> sf, store_at |-> -1,
           params |-> Crc16Ccitt.params] : t \in VerifyTypes, sf \in VerifyFormats}

VerifyInit ==
    /\ fn_pc = "call"
    /\ fn_ret = [kind |-> "none"]
    /\ \E frame \in SeqsUpTo({0, 1, 255}, MaxBody), cs \in VerifySpecs :
          fn_args = [fn |-> "verify_checksum", frame |-> frame, cs |-> cs]
    /\ FramerIdle /\ RingIdle /\ DetectorIdle /\ HandlesIdle

VerifyNext == VerifyChecksum

\* verify_checksum on short frames and on checksum specifications good and bad
VerifySpec == VerifyInit /\ [][VerifyNext]_vars

\* parameter sets of checksum_xor16_slices with offsets inside and outside short
\* frames, from / to on either side of 0, and strides around 0
TolerantParams ==
    {[seed_low_offsets |-> sl, seed_up_offsets |-> su,
      data_slices |-> <<[from |-> f, to |-> t, stride |-> s,
                         low_rel_offsets |-> lr, up_rel_offsets |-> ur]>>] :
        sl \in {<<0>>, <<-1, 5>>}, su \in {<<1>>, <<7>>},
        f \in {-9, -2, 0, 2}, t \in {-9, -1, 1, 9}, s \in {-1, 0, 1, 2},
        lr \in {<<0>>, <<-1>>}, ur \in {<<1>>, <<9>>}}

TolerantInit ==
    /\ fn_pc = "call"
    /\ fn_ret = [kind |-> "none"]
    /\ \E bytes \in SeqsUpTo({1, 255}, MaxXorBytes), params \in TolerantParams :
          fn_args = [fn |-> "checksum_xor16_slices", bytes |-> bytes, params |-> params]
    /\ FramerIdle /\ RingIdle /\ DetectorIdle /\ HandlesIdle

\* checksum_xor16_slices on frames from the empty one on
TolerantSpec == TolerantInit /\ [][KernelNext]_vars

\* the fields of protocol.json for the frames build_frame lays out: the length
\* field in dynamic mode, msg_id, then the payload fields one after the other
RECURSIVE payload_fields(_, _)
payload_fields(fields, offset) ==
    IF fields = <<>> THEN <<>>
    ELSE <<[name |-> fields[1].name, offset |-> offset,
            length |-> scalar_size(fields[1].type), type |-> fields[1].type]>>
           \o payload_fields(Tail(fields), offset + scalar_size(fields[1].type))

frame_fields(fs, command) ==
    LET len_bytes == IF fs.length.mode = "dynamic"
                     THEN scalar_size(fs.length.field_type) ELSE 0
        id_at     == Len(fs.header) + len_bytes
    IN  (IF fs.length.mode = "dynamic"
         THEN <<[name |-> "length", offset |-> Len(fs.header), length |-> len_bytes,
                 type |-> fs.length.field_type]>>
         ELSE <<>>)
          \o <<[name |-> "msg_id", offset |-> id_at, length |-> 1, type |-> "uint8"]>>
          \o payload_fields(command.payload, id_at + 1)

\* cmd_encode followed by the decoder's decode_frame on the frame it wrote
EncodeDecode ==
    /\ fn_pc = "call"
    /\ fn_args.fn = "encode_decode"
    /\ LET fs      == fn_args.frame_spec
           payload == build_payload(fn_args.command, fn_args.params)
           built   == build_frame(fs, fn_args.command.id, payload.payload)
           decoded == decode_frame(built.frame, frame_fields(fs, fn_args.command))
       IN  fn_ret' = IF payload.kind = "raised" THEN payload
                     ELSE IF built.kind = "raised" THEN built
                     ELSE [kind |-> "decoded", frame |-> built.frame,
                           ok |-> decoded.ok, record |-> decoded.record]
    /\ fn_pc' = "done"
    /\ UNCHANGED fn_args
    /\ UNCHANGED <<framerVars, ringVars, detVars, handleVars>>

\* values in the range of each scalar type: the ends of the range and values
\* whose bytes all differ; floats that are and are not binary32 numbers
ValuesOf(value_type) ==
    CASE value_type = "uint8" -> {PyInt(0), PyInt(255)}
      [] value_type = "int8" -> {PyInt(-128), PyInt(-1), PyInt(127)}
      [] value_type \in {"uint16_le", "uint16_be"} -> {PyInt(258), PyInt(65535)}
      [] value_type \in {"int16_le", "int16_be"} -> {PyInt(-32768), PyInt(258)}
      [] value_type \in {"uint32_le", "uint32_be"} -> {PyInt(16909060), PyInt(2147483647)}
      [] value_type \in {"int32_le", "int32_be"} -> {PyInt(-2), PyInt(16909060)}
      [] value_type \in FloatTypes ->
             {Fraction(0, 1), Fraction(1, 2), Fraction(3, 2), Fraction(1, 10)}

ParamNames == <<"p1", "p2", "p3", "p4">>

TypedValuesOf == UNION {{[type |-> t, value |-> v] : v \in ValuesOf(t)} :
                           t \in IntTypes \cup FloatTypes}

CommandIds == {1, 200}

CodecInit ==
    /\ fn_pc = "call"
    /\ fn_ret = [kind |-> "none"]
    /\ \E fs \in {FixedSpec, DynamicSpec}, id \in CommandIds,
          tvs \in SeqsUpTo(TypedValuesOf, MaxFields) :
          /\ tvs # <<>>
          /\ fn_args =
                 [fn |-> "encode_decode", frame_spec |-> fs,
                  command |-> [id |-> id,
                               payload |-> [k \in 1..Len(tvs) |->
                                               [name |-> ParamNames[k],
                                                type |-> tvs[k].type]]],
                  params |-> [n \in {ParamNames[k] : k \in 1..Len(tvs)} |->
                                 tvs[CHOOSE k \in 1..Len(tvs) : ParamNames[k] = n].value]]
    /\ FramerIdle /\ RingIdle /\ DetectorIdle /\ HandlesIdle

CodecNext == EncodeDecode

\* a command with scalar payload fields is encoded into a frame and the frame is
\* decoded with the protocol's field list
CodecSpec == CodecInit /\ [][CodecNext]_vars

-----------------------------------------------------------------------------
(* dvk.semantics: the point-cloud transforms *)

\* Angles are the exact fractions num / den of the floats the code computes, with
\* den = scale_div * max(n - 1, 1) for a frame of n points.

\* _angle_deg_from_raw(raw, right_shift, scale_div, offset), in units of 1/scale_div
angle_deg_from_raw(raw, right_shift, scale_div, offset) ==
    (raw \div (2 ^ right_shift)) + offset * scale_div

\* the start or end angle of _transform_if_dn_pointcloud_v1, in units of 1/scale_div
angle_deg_if_dn(raw, subtract_a000, scale_div, offset) ==
    (IF subtract_a000 THEN raw - 40960 ELSE raw) + offset * scale_div

\* _wrap_delta(start_deg, end_deg, n) times max(n - 1, 1), in units of 1/scale_div
wrap_delta(start_deg, end_deg, n, scale_div) ==
    IF n <= 1 THEN 0
    ELSE IF end_deg < start_deg THEN end_deg + 360 * scale_div - start_deg
    ELSE end_deg - start_deg

\* angle = start_deg + i * delta; if angle >= 360.0: angle -= 360.0
point_angle(start_deg, delta, i, n, scale_div) ==
    LET den   == scale_div * (IF n <= 1 THEN 1 ELSE n - 1)
        angle == start_deg * (IF n <= 1 THEN 1 ELSE n - 1) + i * delta
    IN  [num |-> IF angle >= 360 * den THEN angle - 360 * den ELSE angle, den |-> den]

two_bytes(cfg) == 2

\* the bytes one point takes in the samples field
unit_bytes(cfg) ==
    IF cfg.type = "triplet_pointcloud_v1" THEN 3
    ELSE CASE cfg.brightness_mode = "none" -> 2
           [] cfg.brightness_mode = "u8" -> 3
           [] OTHER -> 4

\* the loop's break tests: point i lies past the end of the payload
point_breaks(cfg, payload, i) ==
    LET base == i * unit_bytes(cfg)
    IN  IF cfg.type = "triplet_pointcloud_v1" THEN base + 2 >= Len(payload)
        ELSE \/ base + 1 >= Len(payload)
             \/ cfg.brightness_mode = "u8" /\ base + 2 >= Len(payload)
             \/ cfg.brightness_mode = "u16_le" /\ base + 3 >= Len(payload)

\* the row of point i (default distance, intensity and hr_flag masks and shifts;
\* brightness None is -1)
point_row(cfg, frame, i, angle) ==
    LET base == i * unit_bytes(cfg)
        b0   == frame.samples[base + 1]
        b1   == frame.samples[base + 2]
    IN  IF cfg.type = "triplet_pointcloud_v1"
        THEN LET b2 == frame.samples[base + 3]
             IN  [_frame_idx |-> frame._frame_idx, _point_idx |-> i, angle_deg |-> angle,
                  distance_raw |-> (b2 * 64 + ((b1 \div 4) % 64)) % 16384,
                  intensity |-> (b1 % 4) * 64 + ((b0 \div 4) % 64),
                  hr_flag |-> b0 % 2]
        ELSE [_frame_idx |-> frame._frame_idx, _point_idx |-> i, angle_deg |-> angle,
              distance_raw |-> (b0 + 256 * b1) % 16384,
              brightness |-> CASE cfg.brightness_mode = "none" -> -1
                               [] cfg.brightness_mode = "u8" -> frame.samples[base + 3]
                               [] OTHER -> frame.samples[base + 3]
                                             + 256 * frame.samples[base + 4]]

\* for i in range(count): ... of one frame
RECURSIVE point_rows(_, _, _, _, _)
point_rows(cfg, frame, start_deg, delta, i) ==
    IF i >= frame.count \/ point_breaks(cfg, frame.samples, i) THEN <<>>
    ELSE <<point_row(cfg, frame, i,
                     point_angle(start_deg, delta, i, frame.count, cfg.scale_div))>>
           \o point_rows(cfg, frame, start_deg, delta, i + 1)

\* the frame is skipped: no hex payload, count <= 0 or no integer start / end
frame_skipped(frame) == ~frame.is_hex \/ frame.count <= 0 \/ ~frame.has_angles

\* the rows one frame adds to out_records
frame_rows(cfg, frame) ==
    IF frame_skipped(frame) THEN <<>>
    ELSE LET start_deg == IF cfg.type = "triplet_pointcloud_v1"
                          THEN angle_deg_from_raw(frame.start_raw, cfg.right_shift,
                                                  cfg.scale_div, cfg.offset)
                          ELSE angle_deg_if_dn(frame.start_raw, cfg.subtract_a000,
                                               cfg.scale_div, cfg.offset)
             end_deg   == IF cfg.type = "triplet_pointcloud_v1"
                          THEN angle_deg_from_raw(frame.end_raw, cfg.right_shift,
                                                  cfg.scale_div, cfg.offset)
                          ELSE angle_deg_if_dn(frame.end_raw, cfg.subtract_a000,
                                               cfg.scale_div, cfg.offset)
         IN  point_rows(cfg, frame, start_deg,
                        wrap_delta(start_deg, end_deg, frame.count, cfg.scale_div), 0)

\* _transform_triplet_pointcloud_v1 / _transform_if_dn_pointcloud_v1: the rows of
\* the frames in the order of raw_records
transform_pointcloud(raw_records, cfg) ==
    Flatten([k \in 1..Len(raw_records) |-> frame_rows(cfg, raw_records[k])])

SupportedTypes == {"triplet_pointcloud_v1", "if_dn_pointcloud_v1"}

\* apply_semantics(raw_records, commands), transforms = commands["telemetry"]["transforms"];
\* an entry is a record (a dict), with or without a "type" key
apply_semantics(raw_records, transforms) ==
    IF transforms = <<>>
    THEN [kind |-> "result", records |-> raw_records, applied |-> FALSE,
          reason |-> "No telemetry.transforms rules."]
    ELSE LET t0 == transforms[1]
         IN  IF "type" \notin DOMAIN t0
             THEN [kind |-> "result", records |-> raw_records, applied |-> FALSE,
                   reason |-> "Invalid telemetry.transforms[0]"]
             ELSE IF t0.type \in SupportedTypes
             THEN LET records == transform_pointcloud(raw_records, t0)
                  IN  [kind |-> "result", records |-> records,
                       applied |-> records # <<>>,
                       reason |-> IF records = <<>> THEN "No points produced"
                                  ELSE "applied"]
             ELSE [kind |-> "result", records |-> raw_records, applied |-> FALSE,
                   reason |-> "Unsupported telemetry transform type"]

\* apply_semantics(raw_records, commands)
ApplySemantics ==
    /\ fn_pc = "call"
    /\ fn_args.fn = "apply_semantics"
    /\ fn_ret' = apply_semantics(fn_args.raw_records, fn_args.transforms)
    /\ fn_pc' = "done"
    /\ UNCHANGED fn_args
    /\ UNCHANGED <<framerVars, ringVars, detVars, handleVars>>

\* the samples field: the first bytes of a fixed pattern
SamplePattern == <<253, 7, 200, 2, 255, 1, 64, 129, 5, 18, 52, 86>>

\* raw angle values of a 16-bit field: 0, 90 and 180 degrees at shift 1 and
\* divisor 64, 0xA000, and two values at the top of the range
RawAngles == {0, 11520, 23040, 40960, 64000, 65535}

Offsets == {0, -10, 350}

TransformConfigs ==
    {[type |-> "triplet_pointcloud_v1", right_shift |-> 1, scale_div |-> 64,
      offset |-> o, subtract_a000 |-> FALSE, brightness_mode |-> "none"] :
        o \in Offsets}
    \cup {[type |-> "if_dn_pointcloud_v1", right_shift |-> 0, scale_div |-> 64,
           offset |-> o, subtract_a000 |-> a, brightness_mode |-> b] :
             o \in Offsets, a \in BOOLEAN, b \in {"none", "u8", "u16_le"}}

PointFrame(idx, count, len, start_raw, end_raw, is_hex, has_angles) ==
    [_frame_idx |-> idx, count |-> count, samples |-> SubSeq(SamplePattern, 1, len),
     start_raw |-> start_raw, end_raw |-> end_raw, is_hex |-> is_hex,
     has_angles |-> has_angles]

\* one frame of every shape, or two frames of a few shapes
RawRecordLists ==
    {<<PointFrame(0, c, l, s, e, TRUE, TRUE)>> :
        c \in 0..MaxCount, l \in 0..MaxSamples, s \in RawAngles, e \in RawAngles}
    \cup {<<PointFrame(0, c, l, 0, 11520, h, a)>> :
             c \in 0..MaxCount, l \in 0..MaxSamples, h \in BOOLEAN, a \in BOOLEAN}
    \cup {<<PointFrame(0, c1, l1, 0, 11520, TRUE, TRUE),
            PointFrame(1, c2, l2, 23040, 0, TRUE, a)>> :
             c1 \in 0..MaxCount, l1 \in {0, 4, 6}, c2 \in 1..MaxCount, l2 \in {3, 6},
             a \in BOOLEAN}

SemanticsInit ==
    /\ fn_pc = "call"
    /\ fn_ret = [kind |-> "none"]
    /\ \E recs \in RawRecordLists, cfg \in TransformConfigs :
          fn_args = [fn |-> "apply_semantics", raw_records |-> recs,
                     transforms |-> <<cfg>>]
    /\ FramerIdle /\ RingIdle /\ DetectorIdle /\ HandlesIdle

SemanticsNext == ApplySemantics

\* apply_semantics on decoded frames, for each point-cloud transform configuration
SemanticsSpec == SemanticsInit /\ [][SemanticsNext]_vars

\* entries of telemetry.transforms: supported rules, a rule of a type the code
\* does not know, and a dict without a "type" key
TransformEntries ==
    {cfg \in TransformConfigs : cfg.offset = 0 /\ cfg.brightness_mode \in {"none", "u8"}}
    \cup {[type |-> "grid_map_v9"], [name |-> "untyped"]}

TransformLists == SeqsUpTo(TransformEntries, MaxTransforms)

TransformsInit ==
    /\ fn_pc = "call"
    /\ fn_ret = [kind |-> "none"]
    /\ \E c \in 0..2, l \in {0, 3, 6}, h \in BOOLEAN, transforms \in TransformLists :
          fn_args = [fn |-> "apply_semantics",
                     raw_records |-> <<PointFrame(0, c, l, 0, 11520, h, TRUE)>>,
                     transforms |-> transforms]
    /\ FramerIdle /\ RingIdle /\ DetectorIdle /\ HandlesIdle

\* apply_semantics for each list of transforms
TransformsSpec == TransformsInit /\ [][SemanticsNext]_vars

-----------------------------------------------------------------------------
(* dvk_decode.decode_frames_file and dvk_live.cmd_uart_publish: frame indexes *)

\* get_frame_length(frame_spec, data[idx:])
get_frame_length(fs, rest) ==
    LET ls == fs.length
    IN  IF ls.mode = "fixed" THEN ls.value
        ELSE IF Len(rest) < ls.field_offset + ls.field_length THEN -1
        ELSE LET raw == SubSeq(rest, ls.field_offset + 1,
                               ls.field_offset + ls.field_length)
                 v   == parse_value(raw, ls.field_type)
             IN  IF "num" \notin DOMAIN v THEN -1
                 ELSE IF ls.mode = "dynamic" THEN v.num + ls.overhead_bytes
                 ELSE ls.overhead_bytes + v.num * ls.unit_bytes

find_from_start(bytes, header, pos) == Find(bytes, header)

\* data.find(header, pos)
find_from(bytes, header, pos) ==
    LET idx == Find(Drop(bytes, pos), header)
    IN  IF idx < 0 THEN -1 ELSE idx + pos

\* frame.get(count_ref), frame.get(start_field), ... of a decoded record, with
\* _as_int and _hex_to_bytes applied
as_point_frame(record) ==
    LET int_of(n) == n \in DOMAIN record /\ "num" \in DOMAIN record[n]
        hex       == "samples" \in DOMAIN record /\ "hex" \in DOMAIN record["samples"]
    IN  [_frame_idx |-> record["_frame_idx"],
         count |-> IF int_of("lsn") THEN record["lsn"].num ELSE 0,
         samples |-> IF hex THEN record["samples"].hex ELSE <<>>,
         is_hex |-> hex,
         has_angles |-> int_of("fsa") /\ int_of("lsa"),
         start_raw |-> IF int_of("fsa") THEN record["fsa"].num ELSE 0,
         end_raw |-> IF int_of("lsa") THEN record["lsa"].num ELSE 0]

\* the record with one more key
with_key(record, key, value) ==
    [n \in DOMAIN record \cup {key} |-> IF n = key THEN value ELSE record[n]]

\* one iteration of decode_frames_file's loop that goes round again: skip one byte
\* past a header with no whole frame behind it, or take the frame
DecodeFileStep ==
    /\ fn_pc = "loop"
    /\ fn_args.fn = "decode_frames_file"
    /\ fn_ret.pos < Len(fn_args.bytes)
    /\ LET fs        == fn_args.frame_spec
           idx       == find_from(fn_args.bytes, fs.header, fn_ret.pos)
           frame_len == get_frame_length(fs, Drop(fn_args.bytes, idx))
           frame     == SubSeq(fn_args.bytes, idx + 1, idx + frame_len)
           decoded   == decode_fields(frame, fs.fields,
                                      [n \in {"_frame_idx"} |-> fn_ret.frame_idx])
       IN  /\ idx >= 0
           /\ fn_ret' =
                 IF frame_len <= 0 \/ idx + frame_len > Len(fn_args.bytes)
                 THEN [fn_ret EXCEPT !.pos = idx + 1]
                 ELSE [fn_ret EXCEPT
                          !.pos = idx + frame_len,
                          !.frame_idx = @ + 1,
                          !.total_frames = @ + 1,
                          !.decode_errors = IF decoded.ok THEN @ ELSE @ + 1,
                          !.framed_at = Append(@, idx),
                          !.numbered = Append(@, fn_ret.frame_idx),
                          !.records = IF decoded.ok
                                      THEN Append(@, with_key(decoded.record, "_at", idx))
                                      ELSE @]
    /\ UNCHANGED <<fn_args, fn_pc>>
    /\ UNCHANGED <<framerVars, ringVars, detVars, handleVars>>

\* the loop ends: the data is used up or holds no further header; cmd_decode then
\* applies the semantics to the records
DecodeFileEnd ==
    /\ fn_pc = "loop"
    /\ fn_args.fn = "decode_frames_file"
    /\ \/ fn_ret.pos >= Len(fn_args.bytes)
       \/ find_from(fn_args.bytes, fn_args.frame_spec.header, fn_ret.pos) < 0
    /\ fn_ret' = [fn_ret EXCEPT
                     !.rows = transform_pointcloud(
                                  [k \in 1..Len(fn_ret.records) |->
                                      as_point_frame(fn_ret.records[k])],
                                  fn_args.cfg)]
    /\ fn_pc' = "done"
    /\ UNCHANGED fn_args
    /\ UNCHANGED <<framerVars, ringVars, detVars, handleVars>>

\* _decode_raw_fields(frame, frame_spec): a field that does not fit is left out
RECURSIVE decode_raw_fields(_, _, _)
decode_raw_fields(frame, fields, record) ==
    IF fields = <<>> THEN record
    ELSE LET f      == fields[1]
             offset == IF f.offset < 0 THEN Len(frame) + f.offset ELSE f.offset
             length == resolve_field_length(f, record)
         IN  IF offset < 0 \/ offset + length > Len(frame)
             THEN decode_raw_fields(frame, Tail(fields), record)
             ELSE decode_raw_fields(frame, Tail(fields),
                      with_key(record, f.name,
                               parse_value(SubSeq(frame, offset + 1, offset + length),
                                           f.type)))

\* a producer that publishes every frame
never_throttled(now, last_emit, sleep_s) == FALSE

\* if sleep_s > 0 and (now - last_emit) < sleep_s: continue
throttled(now, last_emit, sleep_s) == sleep_s > 0 /\ now - last_emit < sleep_s

\* one round of cmd_uart_publish's loop over the frames _iter_framed_bytes yields:
\* decode, number the frame, apply the semantics, and either skip (nothing
\* produced, or throttled) or write the rows to the ring
PublishFrame ==
    /\ fn_pc = "loop"
    /\ fn_args.fn = "uart_publish"
    /\ fn_ret.next <= Len(fn_args.frames)
    /\ LET frame == fn_args.frames[fn_ret.next]
           raw   == with_key(decode_raw_fields(frame, fn_args.frame_spec.fields, <<>>),
                             "_frame_idx", fn_ret.frame_idx)
           rows  == transform_pointcloud(<<as_point_frame(raw)>>, fn_args.cfg)
       IN  \E now \in fn_args.times :
               LET skipped == \/ rows = <<>>
                              \/ throttled(now, fn_ret.last_emit, fn_args.sleep_s)
               IN  fn_ret' = [fn_ret EXCEPT
                                 !.next = @ + 1,
                                 !.frame_idx = @ + 1,
                                 !.numbered = Append(@, fn_ret.frame_idx),
                                 !.clock = Append(@, now),
                                 !.last_emit = IF skipped THEN @ ELSE now,
                                 !.emits = IF skipped THEN @
                                           ELSE Append(@, [frame_idx |-> fn_ret.frame_idx,
                                                           at |-> now]),
                                 !.rows = IF skipped THEN @ ELSE @ \o rows]
    /\ UNCHANGED <<fn_args, fn_pc>>
    /\ UNCHANGED <<framerVars, ringVars, detVars, handleVars>>

\* the serial port is closed: the loop ends
PublishEnd ==
    /\ fn_pc = "loop"
    /\ fn_args.fn = "uart_publish"
    /\ fn_ret.next > Len(fn_args.frames)
    /\ fn_pc' = "done"
    /\ UNCHANGED <<fn_args, fn_ret>>
    /\ UNCHANGED <<framerVars, ringVars, detVars, handleVars>>

\* the fields of a point-cloud frame: A5, count, start angle, end angle, 3 bytes a
\* point
PointFields ==
    <<[name |-> "lsn", offset |-> 1, length |-> 1, type |-> "uint8"],
      [name |-> "fsa", offset |-> 2, length |-> 1, type |-> "uint8"],
      [name |-> "lsa", offset |-> 3, length |-> 1, type |-> "uint8"],
      [name |-> "samples", offset |-> 4, length |-> 0, type |-> "bytes",
       ref |-> "lsn", mul |-> 3, add |-> 0]>>

\* a field that only frames with a point hold
FirstPointField == [name |-> "first", offset |-> 6, length |-> 1, type |-> "uint8"]

\* a field that only frames with two points hold
SecondPointField == [name |-> "second", offset |-> 9, length |-> 1, type |-> "uint8"]

\* a 16-bit field declared one byte long
NarrowField == [name |-> "narrow", offset |-> 2, length |-> 1, type |-> "uint16_le"]

FieldLists ==
    {PointFields, Append(PointFields, FirstPointField),
     Append(PointFields, SecondPointField), Append(PointFields, NarrowField)}

PointSpec(fields) ==
    [name |-> "points", header |-> <<165>>, has_checksum |-> FALSE,
     checksum |-> Sum8Tail, fields |-> fields,
     length |-> [mode |-> "counted", value |-> 0, field_offset |-> 1,
                 field_length |-> 1, field_type |-> "uint8", unit_bytes |-> 3,
                 overhead_bytes |-> 4]]

PointFrameBytes(count, start_raw, end_raw) ==
    <<165, count, start_raw, end_raw>> \o SubSeq(SamplePattern, 1, 3 * count)

\* whole frames of 0, 1 and 2 points
PointFramePieces ==
    {PointFrameBytes(0, 10, 20), PointFrameBytes(1, 10, 200), PointFrameBytes(2, 200, 10)}

\* a garbage byte, a stray header byte
GarbagePieces == {<<0>>, <<165>>}

TripletDefault ==
    [type |-> "triplet_pointcloud_v1", right_shift |-> 1, scale_div |-> 64,
     offset |-> 0, subtract_a000 |-> FALSE, brightness_mode |-> "none"]

\* frame_idx = 0, last_emit = 0.0, nothing published; clock holds the times
\* time.time() returned, emits the frames written to the ring and when
PublishStart ==
    [next |-> 1, frame_idx |-> 0, numbered |-> <<>>, rows |-> <<>>, last_emit |-> 0,
     clock |-> <<>>, emits |-> <<>>]

OrderInit ==
    /\ fn_pc = "loop"
    /\ \E fields \in FieldLists :
          \/ \E pieces \in SeqsUpTo(PointFramePieces \cup GarbagePieces, MaxPieces) :
                /\ fn_args = [fn |-> "decode_frames_file", bytes |-> Flatten(pieces),
                              frame_spec |-> PointSpec(fields), cfg |-> TripletDefault]
                /\ fn_ret = [pos |-> 0, frame_idx |-> 0, total_frames |-> 0,
                             decode_errors |-> 0, framed_at |-> <<>>,
                             numbered |-> <<>>, records |-> <<>>, rows |-> <<>>]
          \/ \E frames \in SeqsUpTo(PointFramePieces, MaxPieces) :
                /\ fn_args = [fn |-> "uart_publish", frames |-> frames,
                              frame_spec |-> PointSpec(fields), cfg |-> TripletDefault,
                              sleep_s |-> 1, times |-> 1..2]
                /\ fn_ret = PublishStart
    /\ FramerIdle /\ RingIdle /\ DetectorIdle /\ HandlesIdle

OrderNext == DecodeFileStep \/ DecodeFileEnd \/ PublishFrame \/ PublishEnd

\* the offline decoder over a frames file and the live producer over the frames
\* its framer yields
OrderSpec == OrderInit /\ [][OrderNext]_vars

-----------------------------------------------------------------------------
(* dvk.shm: the life of a ring *)

\* ShmHandles(..., owner): ring is the ring its segments are mappings of
ShmHandle(owner, ring) ==
    [owner |-> owner, ring |-> ring, closes |-> 0, unlink_asked |-> FALSE]

always_unlinks(unlink, owner) == unlink

\* close_ring: if unlink and h.owner
close_unlinks(unlink, owner) == unlink /\ owner

\* create_or_attach(base_name, capacity_points, overwrite): unlink_ring removes the
\* names when overwrite is set; create_ring makes a new ring when the names are
\* free, else attach_ring maps the existing ring; a handle on a ring of another
\* capacity is dropped with ValueError and never closed
CreateOrAttach ==
    /\ Len(handles) < MaxHandles
    /\ \E overwrite \in BOOLEAN, same_capacity \in BOOLEAN :
          LET after_unlink == IF overwrite THEN 0 ELSE shm_ring
              h            == Len(handles) + 1
          IN  IF after_unlink = 0
              THEN /\ shm_ring' = h
                   /\ handles' = Append(handles, ShmHandle(TRUE, h))
              ELSE /\ shm_ring' = shm_ring
                   /\ handles' =
                         Append(handles,
                                IF same_capacity THEN ShmHandle(FALSE, shm_ring)
                                ELSE [ShmHandle(FALSE, shm_ring) EXCEPT
                                         !.closes = MaxCloses])
    /\ UNCHANGED procs
    /\ UNCHANGED <<framerVars, ringVars, detVars, fnVars>>

\* attach_ring(base_name): FileNotFoundError when the names do not exist
AttachRing ==
    /\ Len(handles) < MaxHandles
    /\ shm_ring # 0
    /\ handles' = Append(handles, ShmHandle(FALSE, shm_ring))
    /\ UNCHANGED <<shm_ring, procs>>
    /\ UNCHANGED <<framerVars, ringVars, detVars, fnVars>>

\* close_ring(h, unlink): the mappings are closed; unlink removes the names, whatever
\* ring they lead to by now (FileNotFoundError is swallowed)
CloseRing ==
    /\ \E h \in 1..Len(handles), unlink \in BOOLEAN :
          /\ handles[h].closes < MaxCloses
          /\ handles' = [handles EXCEPT ![h].closes = @ + 1,
                                        ![h].unlink_asked = @ \/ unlink]
          /\ shm_ring' = IF close_unlinks(unlink, handles[h].owner) THEN 0 ELSE shm_ring
    /\ UNCHANGED procs
    /\ UNCHANGED <<framerVars, ringVars, detVars, fnVars>>

HandlesInit ==
    /\ HandlesIdle
    /\ FramerIdle /\ RingIdle /\ DetectorIdle /\ FnIdle

HandlesNext == CreateOrAttach \/ AttachRing \/ CloseRing

\* producers and readers create, attach and close handles on one ring name
HandlesSpec == HandlesInit /\ [][HandlesNext]_vars

(* Several processes with a handle on one ring call write_points *)

RaceQuiet == <<capacity_points, clock, w_pc, wr, next_row, last_call, snapshots,
               r_pc, rd, r_result>>

\* rows = the batch of n rows process p passes in its call number c (from 0)
RaceRows(p, c, n) == [k \in 1..n |-> 100 * p + 10 * c + k]

\* write_points: n, cap and w are read, a batch of n >= cap rows is cut
WriterBegin(p, n) ==
    /\ procs[p].pc = "idle"
    /\ procs[p].calls < MaxRaceCalls
    /\ LET cap  == ctrl.capacity
           rows == RaceRows(p, procs[p].calls, n)
       IN  procs' = [procs EXCEPT ![p].pc = "copy",
                                  ![p].rows = kept_rows(rows, cap),
                                  ![p].w = start_index(n, cap, ctrl.write_index)]
    /\ UNCHANGED <<ctrl, data, shm_ring, handles>>
    /\ UNCHANGED RaceQuiet
    /\ UNCHANGED <<framerVars, detVars, fnVars>>

\* the slice assignments of the call
WriterCopy(p) ==
    /\ procs[p].pc = "copy"
    /\ data' = after_call(data, procs[p].rows, Len(procs[p].rows), procs[p].w,
                          ctrl.capacity).data
    /\ procs' = [procs EXCEPT ![p].pc = "index"]
    /\ UNCHANGED <<ctrl, shm_ring, handles>>
    /\ UNCHANGED RaceQuiet
    /\ UNCHANGED <<framerVars, detVars, fnVars>>

\* h.ctrl["write_index"][0] = (w + n) % cap
WriterIndex(p) ==
    /\ procs[p].pc = "index"
    /\ ctrl' = [ctrl EXCEPT !.write_index = new_write_index(procs[p].w, Len(procs[p].rows),
                                                            ctrl.capacity)]
    /\ procs' = [procs EXCEPT ![p].pc = "seq_read"]
    /\ UNCHANGED <<data, shm_ring, handles>>
    /\ UNCHANGED RaceQuiet
    /\ UNCHANGED <<framerVars, detVars, fnVars>>

\* int(h.ctrl["seq"][0]): the right-hand side of the seq assignment
WriterSeqRead(p) ==
    /\ procs[p].pc = "seq_read"
    /\ procs' = [procs EXCEPT ![p].pc = "seq_write", ![p].seq = ctrl.seq]
    /\ UNCHANGED <<ctrl, data, shm_ring, handles>>
    /\ UNCHANGED RaceQuiet
    /\ UNCHANGED <<framerVars, detVars, fnVars>>

\* h.ctrl["seq"][0] = ... + 1
WriterSeqWrite(p) ==
    /\ procs[p].pc = "seq_write"
    /\ ctrl' = [ctrl EXCEPT !.seq = seq_after(procs[p].seq)]
    /\ procs' = [procs EXCEPT ![p].pc = "ns"]
    /\ UNCHANGED <<data, shm_ring, handles>>
    /\ UNCHANGED RaceQuiet
    /\ UNCHANGED <<framerVars, detVars, fnVars>>

\* h.ctrl["last_write_ns"][0] = time.time_ns(); the call returns
WriterNs(p) ==
    /\ procs[p].pc = "ns"
    /\ ctrl' = [ctrl EXCEPT !.last_write_ns = clock]
    /\ procs' = [procs EXCEPT ![p].pc = "idle", ![p].calls = @ + 1]
    /\ UNCHANGED <<data, shm_ring, handles>>
    /\ UNCHANGED RaceQuiet
    /\ UNCHANGED <<framerVars, detVars, fnVars>>

\* create_ring by the first process, create_or_attach by the others
RaceInit ==
    /\ FramerIdle
    /\ DetectorIdle
    /\ FnIdle
    /\ \E cap \in 1..RaceCap : create_ring(cap)
    /\ clock = 0
    /\ w_pc = "idle"
    /\ wr = [rows |-> <<>>, n |-> 0, w |-> 0, i |-> 0]
    /\ next_row = 1
    /\ last_call = [rows |-> <<>>, seq0 |-> 0]
    /\ snapshots = {}
    /\ r_pc = "idle"
    /\ rd = [s1 |-> 0, max_points |-> 0, slots |-> <<>>, copy |-> <<>>]
    /\ r_result = [kind |-> "none", copy |-> <<>>, max_points |-> 0]
    /\ shm_ring = 1
    /\ \E writers \in 1..MaxWriters :
          /\ handles = [p \in 1..writers |-> ShmHandle(p = 1, 1)]
          /\ procs = [p \in 1..writers |->
                         [pc |-> "idle", rows |-> <<>>, w |-> 0, seq |-> 0, calls |-> 0]]

RaceNext ==
    \/ \E p \in 1..Len(procs), n \in 1..(RaceCap + 1) : WriterBegin(p, n)
    \/ \E p \in 1..Len(procs) : WriterCopy(p)
    \/ \E p \in 1..Len(procs) : WriterIndex(p)
    \/ \E p \in 1..Len(procs) : WriterSeqRead(p)
    \/ \E p \in 1..Len(procs) : WriterSeqWrite(p)
    \/ \E p \in 1..Len(procs) : WriterNs(p)

\* the processes' write_points calls, interleaved at their reads and writes of the
\* shared segments
RaceSpec == RaceInit /\ [][RaceNext]_vars

(* A process attaches while another one is in create_ring *)

AttachQuiet == <<shm_ring, handles>>

\* SharedMemory(name=ctrl_name, create=True, ...): a zero-filled segment
CreateCtrlSegment ==
    /\ procs.creator.pc = "start"
    /\ procs' = [procs EXCEPT !.segments = @ \cup {"ctrl"}, !.creator.pc = "ctrl_made"]
    /\ ctrl' = [version |-> 0, capacity |-> 0, write_index |-> 0, seq |-> 0,
                last_write_ns |-> 0]
    /\ UNCHANGED data
    /\ UNCHANGED <<RaceQuiet, AttachQuiet>>
    /\ UNCHANGED <<framerVars, detVars, fnVars>>

\* SharedMemory(name=data_name, create=True, size=itemsize * capacity_points)
CreateDataSegment ==
    /\ procs.creator.pc = "ctrl_made"
    /\ procs' = [procs EXCEPT !.segments = @ \cup {"data"}, !.creator.pc = "data_made"]
    /\ data' = [j \in 0..(capacity_points - 1) |-> 0]
    /\ UNCHANGED ctrl
    /\ UNCHANGED <<RaceQuiet, AttachQuiet>>
    /\ UNCHANGED <<framerVars, detVars, fnVars>>

\* ctrl["version"][0] = 1
WriteVersion ==
    /\ procs.creator.pc = "data_made"
    /\ ctrl' = [ctrl EXCEPT !.version = 1]
    /\ procs' = [procs EXCEPT !.creator.pc = "version_set"]
    /\ UNCHANGED data
    /\ UNCHANGED <<RaceQuiet, AttachQuiet>>
    /\ UNCHANGED <<framerVars, detVars, fnVars>>

\* ctrl["capacity"][0] = capacity_points
WriteCapacity ==
    /\ procs.creator.pc = "version_set"
    /\ ctrl' = [ctrl EXCEPT !.capacity = capacity_points]
    /\ procs' = [procs EXCEPT !.creator.pc = "capacity_set"]
    /\ UNCHANGED data
    /\ UNCHANGED <<RaceQuiet, AttachQuiet>>
    /\ UNCHANGED <<framerVars, detVars, fnVars>>

\* write_index, seq and last_write_ns are set to 0, data.fill(0); create_ring returns
CreateReturn ==
    /\ procs.creator.pc = "capacity_set"
    /\ ctrl' = [ctrl EXCEPT !.write_index = 0, !.seq = 0, !.last_write_ns = 0]
    /\ data' = [j \in 0..(capacity_points - 1) |-> 0]
    /\ procs' = [procs EXCEPT !.creator.pc = "done"]
    /\ UNCHANGED <<RaceQuiet, AttachQuiet>>
    /\ UNCHANGED <<framerVars, detVars, fnVars>>

\* create_or_attach: create_ring raises FileExistsError on the control segment
\* that exists, attach_ring is called
CreateFails ==
    /\ procs.attacher.pc = "start"
    /\ procs.attacher.via = "create_or_attach"
    /\ "ctrl" \in procs.segments
    /\ procs' = [procs EXCEPT !.attacher.pc = "attach"]
    /\ UNCHANGED <<ctrl, data>>
    /\ UNCHANGED <<RaceQuiet, AttachQuiet>>
    /\ UNCHANGED <<framerVars, detVars, fnVars>>

\* attach_ring: SharedMemory(name=ctrl_name, create=False), FileNotFoundError
\* when the name does not exist
OpenCtrl ==
    /\ \/ procs.attacher.pc = "attach"
       \/ procs.attacher.pc = "start" /\ procs.attacher.via = "attach_ring"
    /\ procs' = [procs EXCEPT !.attacher.pc =
                     IF "ctrl" \in procs.segments THEN "ctrl_open" ELSE "raised"]
    /\ UNCHANGED <<ctrl, data>>
    /\ UNCHANGED <<RaceQuiet, AttachQuiet>>
    /\ UNCHANGED <<framerVars, detVars, fnVars>>

\* cap = int(ctrl["capacity"][0])
ReadCapacity ==
    /\ procs.attacher.pc = "ctrl_open"
    /\ procs' = [procs EXCEPT !.attacher.pc = "cap_read", !.attacher.cap = ctrl.capacity]
    /\ UNCHANGED <<ctrl, data>>
    /\ UNCHANGED <<RaceQuiet, AttachQuiet>>
    /\ UNCHANGED <<framerVars, detVars, fnVars>>

\* SharedMemory(name=data_name, create=False), FileNotFoundError when the name does
\* not exist; attach_ring returns the handle, its data array
\* np.ndarray((cap,), ..., buffer=data_shm.buf); create_or_attach raises ValueError
\* when the capacity read is not the one it was asked for
OpenData ==
    /\ procs.attacher.pc = "cap_read"
    /\ procs' = [procs EXCEPT
                    !.attacher.pc =
                       IF "data" \notin procs.segments THEN "raised"
                       ELSE IF /\ procs.attacher.via = "create_or_attach"
                               /\ procs.attacher.cap # procs.attacher.asked
                            THEN "raised"
                       ELSE "returned",
                    !.attacher.data_len = procs.attacher.cap]
    /\ UNCHANGED <<ctrl, data>>
    /\ UNCHANGED <<RaceQuiet, AttachQuiet>>
    /\ UNCHANGED <<framerVars, detVars, fnVars>>

\* one process is about to call create_ring, another attach_ring or create_or_attach
AttachInit ==
    /\ FramerIdle
    /\ DetectorIdle
    /\ FnIdle
    /\ capacity_points \in 1..AttachCap
    /\ ctrl = [version |-> 0, capacity |-> 0, write_index |-> 0, seq |-> 0,
               last_write_ns |-> 0]
    /\ data = <<>>
    /\ clock = 0
    /\ w_pc = "idle"
    /\ wr = [rows |-> <<>>, n |-> 0, w |-> 0, i |-> 0]
    /\ next_row = 1
    /\ last_call = [rows |-> <<>>, seq0 |-> 0]
    /\ snapshots = {}
    /\ r_pc = "idle"
    /\ rd = [s1 |-> 0, max_points |-> 0, slots |-> <<>>, copy |-> <<>>]
    /\ r_result = [kind |-> "none", copy |-> <<>>, max_points |-> 0]
    /\ shm_ring = 0
    /\ handles = <<>>
    /\ \E via \in {"attach_ring", "create_or_attach"}, asked \in 1..AttachCap :
          procs = [segments |-> {},
                   creator  |-> [pc |-> "start"],
                   attacher |-> [pc |-> "start", via |-> via, asked |-> asked,
                                 cap |-> 0, data_len |-> 0]]

AttachNext ==
    \/ CreateCtrlSegment
    \/ CreateDataSegment
    \/ WriteVersion
    \/ WriteCapacity
    \/ CreateReturn
    \/ CreateFails
    \/ OpenCtrl
    \/ ReadCapacity
    \/ OpenData

\* create_ring and an attach, interleaved at their system calls and their reads
\* and writes of the control header
AttachSpec == AttachInit /\ [][AttachNext]_vars

-----------------------------------------------------------------------------
(* dvk_detect_protocol: the detector *)

\* list.sort(key=...): the order a stable ascending sort by keys[i] puts the
\* positions 1..Len(keys) in
StableOrder(keys) ==
    LET n       == Len(keys)
        rank(i) == Cardinality({j \in 1..n : keys[j] < keys[i]
                                              \/ (keys[j] = keys[i] /\ j < i)})
    IN  [k \in 1..n |-> CHOOSE i \in 1..n : rank(i) = k - 1]

\* list.sort(key=..., reverse=True): descending, equal keys keep their order
StableOrderReverse(keys) == StableOrder([i \in 1..Len(keys) |-> 0 - keys[i]])

\* the DetectionResult apply_query_rule or match_banner builds from a matching rule
rule_result(rule, banner_model) ==
    [protocol_id |-> rule.protocol_id, protocol_version |-> "v1",
     model_id |-> IF rule.method = "banner" THEN banner_model ELSE "",
     confidence |-> rule.confidence, rule_id |-> rule.id, method |-> rule.method]

method_rank(method) ==
    CASE method = "sniff" -> 2 [] method = "banner" -> 1 [] OTHER -> 0

\* choose_best: the first result of the highest (confidence, method_rank)
choose_best(results) ==
    IF results = <<>> THEN NoResult
    ELSE LET keys == [k \in 1..Len(results) |->
                         results[k].confidence * 4 + method_rank(results[k].method)]
         IN  results[StableOrderReverse(keys)[1]]

\* a detector that lets every rule result compete
all_results(results) == results

\* cmd_uart: the results choose_best is given, [r for r in results if r.method == "query"]
query_results(results) ==
    LET isQuery(r) == r.method = "query"
    IN  SelectSeq(results, isQuery)

\* score_to_confidence in whole percent, rounded down
score_to_confidence(frames_ok, frames_bad) ==
    IF frames_ok + frames_bad <= 0 THEN 0
    ELSE Min2(99, 20 + ((79 * frames_ok) \div (frames_ok + frames_bad)))

sniff_score(c) == c.frames_ok * 100 - c.frames_bad_checksum * 50 - c.resyncs

\* pick_by_sniff: the second-best is too close
too_close(best_score, second_score) == best_score - second_score < 50

\* pick_by_sniff(candidates, sample)
pick_by_sniff(candidates) ==
    LET unsorted == [k \in 1..Len(candidates) |->
                        candidates[k] @@ [score |-> sniff_score(candidates[k])]]
        order    == StableOrderReverse([k \in 1..Len(unsorted) |-> unsorted[k].score])
        scored   == [k \in 1..Len(unsorted) |-> unsorted[order[k]]]
    IN  IF scored = <<>> \/ scored[1].frames_ok <= 0
        THEN [result |-> NoResult, scored |-> scored, ambiguous |-> FALSE]
        ELSE
          LET best      == scored[1]
              ambiguous == /\ Len(scored) > 1
                           /\ scored[2].frames_ok > 0
                           /\ too_close(best.score, scored[2].score)
          IN  [result |-> [protocol_id |-> best.protocol_id,
                           protocol_version |-> best.protocol_version,
                           model_id |-> "",
                           confidence |-> score_to_confidence(best.frames_ok,
                                                              best.frames_bad_checksum),
                           rule_id |-> IF ambiguous THEN "sniff_protocol_assets:ambiguous"
                                       ELSE "sniff_protocol_assets",
                           method |-> "sniff"],
               scored |-> scored, ambiguous |-> ambiguous]

\* the candidates a model document's protocol bundles leave
restrict_candidates(candidates, refs) ==
    LET allowed_ids  == {refs[k].protocol_id : k \in 1..Len(refs)}
        expected_ids == {refs[k].protocol_id : k \in {j \in 1..Len(refs) :
                                                        refs[j].expected_version # ""}}
        expected(pid) ==
            refs[CHOOSE k \in 1..Len(refs) :
                    /\ refs[k].protocol_id = pid /\ refs[k].expected_version # ""
                    /\ \A j \in (k + 1)..Len(refs) :
                          ~(refs[j].protocol_id = pid /\ refs[j].expected_version # "")
                ].expected_version
        isAllowed(c) == c.protocol_id \in allowed_ids
        isExpected(c) == c.protocol_id \notin expected_ids
                         \/ c.protocol_version = expected(c.protocol_id)
    IN  IF allowed_ids = {} THEN candidates
        ELSE IF expected_ids = {} THEN SelectSeq(candidates, isAllowed)
        ELSE SelectSeq(SelectSeq(candidates, isAllowed), isExpected)

\* a command that records an ambiguous result as it records any other
never_forced(ambiguous, allow_ambiguous, method) == FALSE

\* the ambiguous result is not recorded and the command exits with code 2
manual_decision_forced(ambiguous, allow_ambiguous, method) ==
    ambiguous /\ ~allow_ambiguous /\ method = "sniff"

\* cmd_uart from the rule loop to its exit
cmd_uart(rules, banner_model, cands, args, refs) ==
    LET order        == StableOrder([k \in 1..Len(rules) |-> rules[k].priority])
        uart_rules   == [k \in 1..Len(rules) |-> rules[order[k]]]
        matches(r)   == r.matches
        matching     == SelectSeq(uart_rules, matches)
        results      == [k \in 1..Len(matching) |-> rule_result(matching[k], banner_model)]
        bannerHit    == \E k \in 1..Len(results) : results[k].method = "banner"
        group_model  == IF bannerHit THEN banner_model ELSE ""
        best0        == choose_best(query_results(results))
        model_id     == IF args.model_id # "" THEN args.model_id
                        ELSE IF group_model # "" THEN group_model
                        ELSE best0.model_id
        allowed      == IF model_id # "" THEN {refs[k].protocol_id : k \in 1..Len(refs)}
                        ELSE {}
        candidates   == IF model_id # "" THEN restrict_candidates(cands, refs) ELSE cands
        best1        == IF allowed # {} /\ Len(candidates) = 1 /\ best0.method = "none"
                        THEN [protocol_id |-> candidates[1].protocol_id,
                              protocol_version |-> candidates[1].protocol_version,
                              model_id |-> model_id, confidence |-> 90,
                              rule_id |-> "model_file_single", method |-> "model_file"]
                        ELSE best0
        sniffed      == best1.method = "none"
        sniff        == pick_by_sniff(candidates)
        best         == IF sniffed THEN sniff.result ELSE best1
        scored       == IF sniffed THEN sniff.scored ELSE <<>>
        ambiguous    == scored # <<>> /\ sniff.ambiguous
    IN  IF best.method = "none"
        THEN [NoOut EXCEPT !.exit_code = 1, !.scored = scored, !.sniffed = sniffed]
        ELSE IF manual_decision_forced(ambiguous, args.allow_ambiguous, best.method)
        THEN [exit_code |-> 2, best |-> best,
              detected |-> [NoResult EXCEPT !.rule_id = "ambiguous", !.method = "sniff"],
              scored |-> scored, ambiguous |-> ambiguous, sniffed |-> sniffed,
              appended |-> TRUE]
        ELSE [exit_code |-> 0, best |-> best, detected |-> best, scored |-> scored,
              ambiguous |-> ambiguous, sniffed |-> sniffed, appended |-> TRUE]

\* cmd_file from the candidate list to its exit
cmd_file(cands, args, refs) ==
    LET candidates == IF args.model_id # "" THEN restrict_candidates(cands, refs) ELSE cands
        sniff      == pick_by_sniff(candidates)
        best       == sniff.result
    IN  IF best.method = "none"
        THEN [NoOut EXCEPT !.exit_code = 1, !.scored = sniff.scored, !.sniffed = TRUE]
        ELSE IF manual_decision_forced(sniff.ambiguous, args.allow_ambiguous, best.method)
        THEN [exit_code |-> 2, best |-> best,
              detected |-> [NoResult EXCEPT !.rule_id = "ambiguous", !.method = "sniff"],
              scored |-> sniff.scored, ambiguous |-> sniff.ambiguous, sniffed |-> TRUE,
              appended |-> TRUE]
        ELSE [exit_code |-> 0, best |-> best, detected |-> best, scored |-> sniff.scored,
              ambiguous |-> sniff.ambiguous, sniffed |-> TRUE, appended |-> TRUE]

\* the file command runs on the captured sample
CmdFile ==
    /\ d_pc = "start"
    /\ d_out' = cmd_file(d_cands, d_args, d_refs)
    /\ d_pc' = "file_done"
    /\ UNCHANGED <<d_rules, d_banner_model, d_cands, d_args, d_refs>>
    /\ UNCHANGED <<framerVars, ringVars, fnVars, handleVars>>

\* the uart command runs
CmdUart ==
    /\ d_pc = "start"
    /\ d_out' = cmd_uart(d_rules, d_banner_model, d_cands, d_args, d_refs)
    /\ d_pc' = "done"
    /\ UNCHANGED <<d_rules, d_banner_model, d_cands, d_args, d_refs>>
    /\ UNCHANGED <<framerVars, ringVars, fnVars, handleVars>>

\* pick_by_sniff is called on the candidates
PickBySniff ==
    /\ d_pc = "start"
    /\ LET r == pick_by_sniff(d_cands)
       IN  d_out' = [NoOut EXCEPT !.best = r.result, !.detected = r.result,
                                  !.scored = r.scored, !.ambiguous = r.ambiguous,
                                  !.sniffed = TRUE]
    /\ d_pc' = "done"
    /\ UNCHANGED <<d_rules, d_banner_model, d_cands, d_args, d_refs>>
    /\ UNCHANGED <<framerVars, ringVars, fnVars, handleVars>>

(* Inputs of the detector *)

RuleShapes == [method : {"query", "banner"}, priority : {1, 2}, confidence : {50, 90},
               matches : BOOLEAN]

\* rule k of rules.yaml: query rules bind protocol pQ, banner rules bind pB
MakeRules(shapes) ==
    [k \in 1..Len(shapes) |->
        shapes[k] @@ [id |-> k,
                      protocol_id |-> IF shapes[k].method = "query" THEN "pQ" ELSE "pB"]]

Cand(pid, ver, ok, bad, rs) ==
    [protocol_id |-> pid, protocol_version |-> ver, frames_ok |-> ok,
     frames_bad_checksum |-> bad, resyncs |-> rs]

\* the candidate lists of the uart command's runs
UartCandidateLists ==
    { <<>>,
      <<Cand("pA", "v1", 2, 0, 0)>>,
      <<Cand("pA", "v1", 1, 1, 0), Cand("pB", "v1", 2, 0, 1)>>,
      <<Cand("pA", "v1", 1, 0, 1), Cand("pB", "v2", 1, 0, 0)>>,
      <<Cand("pA", "v1", 1, 0, 0), Cand("pB", "v1", 0, 0, 0)>> }

RefLists ==
    { <<>>,
      <<[protocol_id |-> "pB", expected_version |-> ""]>>,
      <<[protocol_id |-> "pA", expected_version |-> ""],
        [protocol_id |-> "pB", expected_version |-> "v1"]>> }

DetectInit ==
    /\ FramerIdle
    /\ RingIdle
    /\ FnIdle
    /\ HandlesIdle
    /\ \E shapes \in SeqsUpTo(RuleShapes, MaxRules) : d_rules = MakeRules(shapes)
    /\ d_banner_model \in {"", "m1"}
    /\ d_cands \in UartCandidateLists
    /\ d_args \in [model_id : {"", "m1"}, allow_ambiguous : BOOLEAN]
    /\ d_refs \in RefLists
    /\ d_pc = "start"
    /\ d_out = NoOut

DetectNext == CmdUart \/ CmdFile

\* the uart and file detection commands on every rule set, banner, candidate list
\* and model
DetectSpec == DetectInit /\ [][DetectNext]_vars

SniffInit ==
    /\ FramerIdle
    /\ RingIdle
    /\ FnIdle
    /\ HandlesIdle
    /\ d_rules = <<>>
    /\ d_banner_model = ""
    /\ \E counts \in SeqsUpTo([frames_ok : 0..MaxOk, frames_bad_checksum : 0..MaxBad,
                               resyncs : 0..MaxResyncs], MaxCands) :
          d_cands = [k \in 1..Len(counts) |->
                        counts[k] @@ [protocol_id |-> k, protocol_version |-> "v1"]]
    /\ d_args = [model_id |-> "", allow_ambiguous |-> FALSE]
    /\ d_refs = <<>>
    /\ d_pc = "start"
    /\ d_out = NoOut

SniffNext == PickBySniff

\* pick_by_sniff on every list of candidates
SniffSpec == SniffInit /\ [][SniffNext]_vars

-----------------------------------------------------------------------------
(* Claims about the detector *)

QueryMatched == \E k \in 1..Len(d_rules) : d_rules[k].method = "query" /\ d_rules[k].matches

BannerMatched == \E k \in 1..Len(d_rules) : d_rules[k].method = "banner" /\ d_rules[k].matches

\* C8 (detector preference): when a query rule and a banner rule both match, the
\* uart detection ends with the result of a matching query rule, method = query,
\* whatever the confidences and the order of the rules.
C8_QueryPreferred ==
    (d_pc = "done" /\ QueryMatched /\ BannerMatched) =>
        /\ d_out.exit_code = 0
        /\ d_out.detected.method = "query"
        /\ \E k \in 1..Len(d_rules) :
              /\ d_rules[k].method = "query" /\ d_rules[k].matches
              /\ d_out.detected.rule_id = d_rules[k].id
              /\ d_out.detected.protocol_id = d_rules[k].protocol_id

\* the banner rule comes first and has the higher confidence
C8_Witness ==
    /\ d_pc = "done" /\ Len(d_rules) = 2
    /\ d_rules[1].method = "banner" /\ d_rules[1].matches /\ d_rules[1].confidence = 90
    /\ d_rules[1].priority = 1
    /\ d_rules[2].method = "query" /\ d_rules[2].matches /\ d_rules[2].confidence = 50
    /\ d_rules[2].priority = 2
    /\ d_out.detected.method = "query" /\ d_out.detected.rule_id = 2

\* C9 (method order): when no query rule matches and a banner rule that binds a
\* protocol_id matches, the uart detection ends with the banner result,
\* method = banner, and sniff does not decide.
C9_BannerBeforeSniff ==
    (d_pc = "done" /\ ~QueryMatched /\ BannerMatched) =>
        /\ d_out.detected.method = "banner"
        /\ d_out.detected.protocol_id = "pB"
        /\ ~d_out.sniffed

\* C10 (sniff ranking): pick_by_sniff scores each candidate
\* frames_ok*100 - frames_bad_checksum*50 - resyncs, returns the candidates sorted by
\* descending score, its result is the top one, and the result is ambiguous exactly
\* when the top two both have frames_ok > 0 and scores at most 50 apart.
C10_SniffRanking ==
    d_pc = "done" =>
        LET sc == d_out.scored
        IN  /\ Len(sc) = Len(d_cands)
            /\ \A k \in 1..Len(sc) :
                  /\ sc[k].score = sc[k].frames_ok * 100 - sc[k].frames_bad_checksum * 50
                                     - sc[k].resyncs
                  /\ d_cands[sc[k].protocol_id] = [f \in DOMAIN d_cands[1] |-> sc[k][f]]
            /\ \A j, k \in 1..Len(sc) :
                  (j < k => sc[j].score >= sc[k].score) /\ (j # k => sc[j].protocol_id # sc[k].protocol_id)
            /\ d_out.best.method = "sniff" =>
                  /\ d_out.best.protocol_id = sc[1].protocol_id
                  /\ d_out.ambiguous <=>
                        /\ Len(sc) > 1
                        /\ sc[1].frames_ok > 0 /\ sc[2].frames_ok > 0
                        /\ sc[1].score - sc[2].score <= 50

\* C37 (sniff finds a producing candidate): whenever at least one candidate has
\* frames_ok > 0 on the sample, pick_by_sniff returns a detection result (not
\* None), whatever the bad-checksum and resync counts of that candidate and the
\* scores of the candidates that produced no frames.
C37_SniffFindsProducer ==
    (d_pc = "done" /\ d_out.sniffed
       /\ \E k \in 1..Len(d_cands) : d_cands[k].frames_ok > 0) =>
        d_out.best.method = "sniff"

\* a candidate with one good frame, two bad ones and a resync (score -1) behind a
\* candidate that framed nothing (score 0): no result
C37_ProducerBelowSilent ==
    /\ d_pc = "done"
    /\ d_out.sniffed
    /\ Len(d_cands) = 2
    /\ d_cands[1].frames_ok = 1 /\ d_cands[1].frames_bad_checksum = 2
    /\ d_cands[1].resyncs = 1
    /\ d_cands[2].frames_ok = 0 /\ d_cands[2].frames_bad_checksum = 0
    /\ d_cands[2].resyncs = 0
    /\ d_out.scored[1].protocol_id = 2
    /\ d_out.best = NoResult

\* C11 (ambiguous detection): when the sniff result of the uart or the file command
\* is ambiguous and allow_ambiguous is false, the command ends with exit code 2
\* after appending a device entry whose detected protocol_id and protocol_version
\* are empty, confidence 0 and rule_id "ambiguous"; with allow_ambiguous the top
\* candidate is recorded and the command ends with exit code 0.
C11_AmbiguousExit ==
    (d_pc \in {"done", "file_done"} /\ d_out.ambiguous) =>
        IF ~d_args.allow_ambiguous
        THEN /\ d_out.exit_code = 2
             /\ d_out.appended
             /\ d_out.detected.protocol_id = "" /\ d_out.detected.protocol_version = ""
             /\ d_out.detected.confidence = 0 /\ d_out.detected.rule_id = "ambiguous"
        ELSE /\ d_out.exit_code = 0
             /\ d_out.appended
             /\ d_out.detected.method = "sniff"
             /\ d_out.detected.protocol_id = d_out.scored[1].protocol_id
             /\ d_out.detected.protocol_version = d_out.scored[1].protocol_version

\* the file command met two close candidates and the caller did not opt in
C11_Witness ==
    /\ d_pc = "file_done" /\ d_out.ambiguous /\ ~d_args.allow_ambiguous
    /\ Len(d_out.scored) = 2 /\ d_out.exit_code = 2 /\ d_out.appended

\* the model document of the model_id hint leaves exactly one candidate
OneCandidateLeft ==
    /\ d_args.model_id # ""
    /\ d_refs # <<>>
    /\ Len(restrict_candidates(d_cands, d_refs)) = 1

\* C12 (model restriction): when the model_id hint restricts the candidates to
\* exactly one (and no query rule decided before), the uart command and the file
\* command alike end successfully with that candidate recorded, without sniffing.
C12_ModelRestriction ==
    (d_pc \in {"done", "file_done"} /\ OneCandidateLeft /\ ~QueryMatched) =>
        LET c == restrict_candidates(d_cands, d_refs)[1]
        IN  /\ d_out.exit_code = 0
            /\ d_out.detected.protocol_id = c.protocol_id
            /\ d_out.detected.protocol_version = c.protocol_version
            /\ ~d_out.sniffed

-----------------------------------------------------------------------------
(* Claims about the checksums and the encoder *)

\* C13 (checksum round trip): for each checksum type (sum8, cs15, xor16_slices,
\* crc16, crc32) and every frame body, the encoder's checksum step yields a frame,
\* and verify_checksum returns true on that frame with the same specification.
C13_ChecksumRoundTrip ==
    (fn_pc = "done" /\ fn_args.fn = "checksum_round_trip") =>
        fn_ret.kind = "frame" /\ fn_ret.verify = "true"

\* the float is a binary32 number: a significand below 2^24 over a power of two
IsBinary32(x) == x.num < 2 ^ 24 /\ \E k \in 0..30 : x.den = 2 ^ k

RoundTripDone == fn_pc = "done" /\ fn_args.fn = "encode_decode"

\* the frame was decoded into the command's id and exactly the parameter values
DecodedAsEncoded ==
    /\ fn_ret.kind = "decoded"
    /\ fn_ret.ok
    /\ fn_ret.record["msg_id"] = PyInt(fn_args.command.id)
    /\ \A n \in DOMAIN fn_args.params : fn_ret.record[n] = fn_args.params[n]

\* C14 (decode/encode round trip), as stated: for every command whose payload
\* fields are all scalar and every parameter value in the range of its type,
\* decoding the encoded frame yields the command and the same parameter values.
C14_DecodeEncodeRoundTrip == RoundTripDone => DecodedAsEncoded

\* C14, amended: the round trip is exact for every integer type and, for float32,
\* for the values that are binary32 numbers.
C14_RoundTripBinary32 ==
    (/\ RoundTripDone
     /\ \A k \in 1..Len(fn_args.command.payload) :
            fn_args.command.payload[k].type \in FloatTypes =>
                IsBinary32(fn_args.params[fn_args.command.payload[k].name]))
        => DecodedAsEncoded

\* a negative integer and a binary32 float went through the round trip
C14_Witness ==
    /\ RoundTripDone
    /\ fn_ret.kind = "decoded"
    /\ Len(fn_args.command.payload) = 2
    /\ fn_args.command.payload[1].type = "int16_be"
    /\ fn_args.params["p1"] = PyInt(-32768)
    /\ fn_args.command.payload[2].type = "float32_le"
    /\ fn_args.params["p2"] = Fraction(3, 2)
    /\ fn_ret.record["p2"] = Fraction(3, 2)

\* the example of the XOR16 scenario has been computed
Xor16Example ==
    /\ fn_pc = "done"
    /\ fn_args.fn = "checksum_xor16_slices"
    /\ fn_args.bytes = <<0, 17, 34, 51>>
    /\ fn_args.params = Xor16Params(1, <<0>>)

\* C21 (XOR16 scenario), as stated: checksum_xor16_slices on [0x00, 0x11, 0x22, 0x33]
\* with seed_low_offsets [0], seed_up_offsets [1] and the slice {from 2, to 3,
\* stride 1, low_rel_offsets [0], up_rel_offsets [0]} returns 0x2222.
C21_Xor16Scenario == Xor16Example => fn_ret.value = 8738

\* C21, amended: on that input checksum_xor16_slices returns 0x0011 (low =
\* 0x00 ^ 0x22 ^ 0x33, up = 0x11 ^ 0x22 ^ 0x33); 0x2222 is the result for stride 2
\* and up_rel_offsets [1].
C21_Xor16ScenarioValue ==
    /\ Xor16Example => fn_ret.value = 17
    /\ (/\ fn_pc = "done"
        /\ fn_args.fn = "checksum_xor16_slices"
        /\ fn_args.bytes = <<0, 17, 34, 51>>
        /\ fn_args.params = Xor16Params(2, <<1>>)) => fn_ret.value = 8738

C21_Witness == Xor16Example /\ fn_ret.value = 17

\* the little-endian 16-bit words of data padded to even length, each weighted by
\* the doublings that follow it
RECURSIVE WeightedWords(_)
WeightedWords(bytes) ==
    IF bytes = <<>> THEN 0
    ELSE LET word  == bytes[1] + (IF Len(bytes) >= 2 THEN 256 * bytes[2] ELSE 0)
             words == (Len(bytes) + 1) \div 2
         IN  word * (2 ^ (words - 1)) + WeightedWords(SubSeq(bytes, 3, Len(bytes)))

\* C22 (CS15): checksum_cs15 pads odd-length data with 0x00, folds the
\* little-endian words with chk = (chk << 1) + word without intermediate modulus,
\* and returns ((chk & 0x7FFF) + (chk >> 15)) masked to 15 bits; the result is in
\* [0, 0x7FFF], and for [0x01, 0x02] it is 0x0201.
C22_Cs15 ==
    (fn_pc = "done" /\ fn_args.fn = "checksum_cs15") =>
        LET chk == WeightedWords(fn_args.bytes)
        IN  /\ fn_ret.value = ((chk % 32768) + (chk \div 32768)) % 32768
            /\ fn_ret.value \in 0..32767
            /\ fn_args.bytes = <<1, 2>> => fn_ret.value = 513

\* two words whose fold passes 16 bits: FF FF FF FF gives 2
C22_Witness ==
    /\ fn_pc = "done"
    /\ fn_args.fn = "checksum_cs15"
    /\ fn_args.bytes = <<255, 255, 255, 255>>
    /\ fn_ret.value = 2

VerifyDone == fn_pc = "done" /\ fn_args.fn = "verify_checksum"

\* the store format in force: the declared one, else the default of the type
StoreFormatOf(cs) ==
    IF cs.store_format # "" THEN cs.store_format
    ELSE CASE cs.type = "sum8" -> "uint8"
           [] cs.type \in {"cs15", "xor16_slices"} -> "uint16_le"
           [] OTHER -> ""

SupportedFormats == {"uint8", "uint16_le", "uint16_be", "uint32_le", "uint32_be"}

\* the checksum field does not lie entirely inside the frame
FieldOutsideFrame(frame, cs) ==
    LET start == IF cs.store_at >= 0 THEN cs.store_at ELSE Len(frame) + cs.store_at
    IN  start < 0 \/ start + type_width(StoreFormatOf(cs)) > Len(frame)

\* a range-based type without a range, or with one that is not inside the frame
\* or runs backwards
NoValidRange(frame, cs) ==
    /\ cs.type \in {"sum8", "cs15", "crc16", "crc32"}
    /\ \/ "range_from" \notin DOMAIN cs
       \/ LET from == IF cs.range_from >= 0 THEN cs.range_from
                      ELSE Len(frame) + cs.range_from
              to   == IF cs.range_to >= 0 THEN cs.range_to ELSE Len(frame) + cs.range_to
          IN  from \notin 0..(Len(frame) - 1) \/ to \notin 0..(Len(frame) - 1) \/ to < from

RECURSIVE XorOver(_, _)
XorOver(frame, S) ==
    IF S = {} THEN 0
    ELSE LET i == CHOOSE j \in S : TRUE
         IN  BitXor(frame[i + 1], XorOver(frame, S \ {i}))

InFrame(frame, S) == {i \in S : 0 <= i /\ i < Len(frame)}

Range(seq) == {seq[k] : k \in 1..Len(seq)}

\* the positions a slice walks in a frame of n bytes: from and to counted from
\* the end when negative, kept inside the frame, in steps of stride
SlicePositions(sl, n) ==
    LET from == IF sl.from < 0 THEN n + sl.from ELSE sl.from
        to   == IF sl.to < 0 THEN n + sl.to ELSE sl.to
        lo   == IF from < 0 THEN 0 ELSE from
    IN  IF sl.stride <= 0 THEN {}
        ELSE {p \in lo..Min2(to, n - 1) : (p - lo) % sl.stride = 0}

\* C33 (XOR16 tolerance): checksum_xor16_slices never fails and returns a value in
\* [0, 0xFFFF] for every frame, the empty one included, and every parameter set:
\* seed and relative offsets outside the frame are skipped, negative from / to
\* resolve from the end, a slice with stride <= 0 or from > to contributes nothing.
C33_Xor16Tolerance ==
    (fn_pc = "done" /\ fn_args.fn = "checksum_xor16_slices") =>
        LET frame == fn_args.bytes
            p     == fn_args.params
            sl    == p.data_slices[1]
            pos   == SlicePositions(sl, Len(frame))
            low   == BitXor(XorOver(frame, InFrame(frame, Range(p.seed_low_offsets))),
                            XorOver(frame, InFrame(frame,
                                {q + sl.low_rel_offsets[1] : q \in pos})))
            up    == BitXor(XorOver(frame, InFrame(frame, Range(p.seed_up_offsets))),
                            XorOver(frame, InFrame(frame,
                                {q + sl.up_rel_offsets[1] : q \in pos})))
        IN  /\ fn_ret.kind = "value"
            /\ fn_ret.value \in 0..65535
            /\ fn_ret.value = up * 256 + low
            /\ frame = <<>> => fn_ret.value = 0

\* frame 01 FF 01, seeds at -1 and 5 (both skipped) and at 1, slice from -2 to 9
\* in steps of 2: position 1 only, low takes frame[0], up frame[2]
C33_Witness ==
    /\ fn_pc = "done"
    /\ fn_args.fn = "checksum_xor16_slices"
    /\ fn_args.bytes = <<1, 255, 1>>
    /\ fn_args.params.seed_low_offsets = <<-1, 5>>
    /\ fn_args.params.seed_up_offsets = <<1>>
    /\ fn_args.params.data_slices[1] =
           [from |-> -2, to |-> 9, stride |-> 2, low_rel_offsets |-> <<-1>>,
            up_rel_offsets |-> <<1>>]
    /\ fn_ret.value = 254 * 256 + 1

\* C36 (read_latest in a quiescent ring): with no write in progress and at least
\* k = min(max_points, capacity) rows written, read_latest returns exactly the k
\* most recent rows in write order, for every write_index, 0 and after a wrap
\* included; max_points <= 0 returns no rows; it never modifies ctrl or data.
C36_ReadLatestQuiescent ==
    [][\A m \in -1..(MaxCap + 1) :
          ReadLatest(m) =>
             LET k       == Min2(m, ctrl.capacity)
                 written == next_row - 1
             IN  /\ m <= 0 => r_result'.copy = <<>>
                 /\ m > 0 /\ written >= k =>
                       r_result'.copy = [i \in 1..k |-> written - k + i]
                 /\ UNCHANGED <<ctrl, data>>]_vars

\* capacity 3, four rows written in two calls, write_index 1: the two latest rows
\* are in slot 2 and slot 0
C36_Witness ==
    /\ r_result.kind = "latest"
    /\ r_result.max_points = 2
    /\ r_result.copy = <<3, 4>>
    /\ ctrl.capacity = 3
    /\ ctrl.write_index = 1
    /\ ctrl.seq = 2
    /\ data = [j \in 0..2 |-> IF j = 0 THEN 4 ELSE j + 1]

\* the write_points calls the first k processes have completed
RECURSIVE CompletedCalls(_)
CompletedCalls(k) == IF k = 0 THEN 0 ELSE procs[k].calls + CompletedCalls(k - 1)

NoCallRunning == \A p \in 1..Len(procs) : procs[p].pc = "idle"

\* C38 (seq counts writes): after any set of non-empty write_points calls has
\* completed, seq equals the number of those calls since the ring was created,
\* for every interleaving of the steps of writers holding handles on the same ring.
C38_SeqCountsWrites ==
    (procs # <<>> /\ NoCallRunning) => ctrl.seq = CompletedCalls(Len(procs))

\* two processes have completed one call each and seq is 1
C38_LostCount ==
    /\ Len(procs) = 2
    /\ NoCallRunning
    /\ procs[1].calls = 1
    /\ procs[2].calls = 1
    /\ ctrl.seq = 1

\* C39 (attach sees an initialized ring): a handle returned by attach_ring, or by
\* create_or_attach on an existing ring, always has version = 1 and a data array
\* whose length equals the capacity requested by the creator, also when the attach
\* runs concurrently with create_ring.
C39_AttachSeesInitializedRing ==
    ("attacher" \in DOMAIN procs /\ procs.attacher.pc = "returned") =>
        /\ ctrl.version = 1
        /\ procs.attacher.data_len = capacity_points

\* attach_ring has returned a handle with an empty data array on a ring of
\* capacity 2 whose creation has completed
C39_EmptyHandle ==
    /\ "attacher" \in DOMAIN procs
    /\ procs.attacher.via = "attach_ring"
    /\ procs.attacher.pc = "returned"
    /\ procs.attacher.data_len = 0
    /\ procs.creator.pc = "done"
    /\ ctrl.version = 1
    /\ ctrl.capacity = 2

-----------------------------------------------------------------------------
(* Claims about the point-cloud transforms *)

SemanticsDone == fn_pc = "done" /\ fn_args.fn = "apply_semantics"

\* the output rows that carry the frame index idx
RowsOf(idx) == SelectSeq(fn_ret.records, LAMBDA r : r._frame_idx = idx)

C16_AngleRange ==
    SemanticsDone =>
        \A j \in 1..Len(fn_ret.records) :
            LET angle == fn_ret.records[j].angle_deg
            IN  0 <= angle.num /\ angle.num < 360 * angle.den

\* a transform of this entry would produce rows from the frames given
Applicable(entry, raw_records) ==
    /\ "type" \in DOMAIN entry
    /\ entry.type \in SupportedTypes
    /\ transform_pointcloud(raw_records, entry) # <<>>

\* C24 (first supported transform): apply_semantics applies the first entry of
\* telemetry.transforms whose type is supported; an unsupported or malformed
\* entry before it does not prevent that.
C24_FirstSupportedTransform ==
    SemanticsDone =>
        \A k \in 1..Len(fn_args.transforms) :
            (/\ Applicable(fn_args.transforms[k], fn_args.raw_records)
             /\ \A j \in 1..(k - 1) :
                    \/ "type" \notin DOMAIN fn_args.transforms[j]
                    \/ fn_args.transforms[j].type \notin SupportedTypes) =>
                /\ fn_ret.applied
                /\ fn_ret.records =
                       transform_pointcloud(fn_args.raw_records, fn_args.transforms[k])

\* an unknown rule in front of a triplet rule: nothing is applied
C24_LaterRuleIgnored ==
    /\ SemanticsDone
    /\ Len(fn_args.transforms) = 2
    /\ \A k \in 1..2 : "type" \in DOMAIN fn_args.transforms[k]
    /\ fn_args.transforms[1].type = "grid_map_v9"
    /\ fn_args.transforms[2].type = "triplet_pointcloud_v1"
    /\ fn_args.raw_records[1].count = 2
    /\ Len(fn_args.raw_records[1].samples) = 6
    /\ fn_args.raw_records[1].is_hex
    /\ ~fn_ret.applied
    /\ fn_ret.records = fn_args.raw_records
    /\ fn_ret.reason = "Unsupported telemetry transform type"

\* cmd_uart_publish with a target rate: sleep_s = 1 / fps in ticks (0 for
\* fps <= 0), time.time() returning any tick from the start of the run on, not
\* necessarily later than the time before
ThrottleInit ==
    /\ fn_pc = "loop"
    /\ \E frames \in SeqsUpTo({PointFrameBytes(0, 10, 20), PointFrameBytes(1, 10, 200)},
                               MaxThrottleFrames),
          sleep_s \in 0..MaxSleep :
          fn_args = [fn |-> "uart_publish", frames |-> frames,
                     frame_spec |-> PointSpec(PointFields), cfg |-> TripletDefault,
                     sleep_s |-> sleep_s, times |-> MaxSleep..(MaxSleep + MaxTicks)]
    /\ fn_ret = PublishStart
    /\ FramerIdle /\ RingIdle /\ DetectorIdle /\ HandlesIdle

ThrottleNext == PublishFrame \/ PublishEnd

ThrottleSpec == ThrottleInit /\ [][ThrottleNext]_vars

-----------------------------------------------------------------------------
(* Claims about the order of frames and rows *)

StrictlyIncreasing(seq) == \A j \in 1..(Len(seq) - 1) : seq[j] < seq[j + 1]

\* rows come frame by frame, and within a frame point by point
RowsInOrder(rows) ==
    \A j \in 1..(Len(rows) - 1) :
        \/ rows[j]._frame_idx < rows[j + 1]._frame_idx
        \/ /\ rows[j]._frame_idx = rows[j + 1]._frame_idx
           /\ rows[j]._point_idx < rows[j + 1]._point_idx

\* C17 (ordering): frames are taken in byte-stream order; the frame index the
\* offline decoder and the live producer assign increases strictly from one framed
\* frame to the next; the rows of one frame are emitted in increasing _point_idx
\* order, all rows of frame i before any row of frame i+1.
C17_Ordering ==
    (fn_args.fn \in {"decode_frames_file", "uart_publish"}) =>
        /\ StrictlyIncreasing(fn_ret.numbered)
        /\ RowsInOrder(fn_ret.rows)
        /\ fn_args.fn = "decode_frames_file" =>
              /\ StrictlyIncreasing(fn_ret.framed_at)
              /\ StrictlyIncreasing([k \in 1..Len(fn_ret.records) |->
                                        fn_ret.records[k]["_at"]])
              /\ StrictlyIncreasing([k \in 1..Len(fn_ret.records) |->
                                        fn_ret.records[k]["_frame_idx"]])

\* the offline decoder framed three frames behind a stray header byte, one of them
\* failed to decode, and the other two gave rows
C17_Witness ==
    /\ fn_args.fn = "decode_frames_file"
    /\ fn_pc = "done"
    /\ fn_ret.numbered = <<0, 1, 2>>
    /\ fn_ret.decode_errors = 1
    /\ Len(fn_ret.records) = 2
    /\ Len(fn_ret.rows) = 3

\* the frames decode_frames_file framed, in order
FramedFrames ==
    [k \in 1..Len(fn_ret.framed_at) |->
        LET rest == Drop(fn_args.bytes, fn_ret.framed_at[k])
        IN  SubSeq(rest, 1, get_frame_length(fn_args.frame_spec, rest))]

\* the length of field f in the frame: declared, or mul * the referenced one-byte
\* field + add
FieldLength(frame, fields, f) ==
    IF "ref" \notin DOMAIN f THEN f.length
    ELSE LET k == CHOOSE j \in 1..Len(fields) : fields[j].name = f.ref
         IN  frame[fields[k].offset + 1] * f.mul + f.add

\* some field lies outside the frame
FieldOutside(frame, fields) ==
    \E k \in 1..Len(fields) :
        LET f      == fields[k]
            offset == IF f.offset < 0 THEN Len(frame) + f.offset ELSE f.offset
        IN  offset < 0 \/ offset + FieldLength(frame, fields, f) > Len(frame)

\* some scalar field has fewer bytes than its type
FieldShort(frame, fields) ==
    \E k \in 1..Len(fields) :
        /\ fields[k].type \in IntTypes \cup FloatTypes
        /\ FieldLength(frame, fields, fields[k]) < scalar_size(fields[k].type)

OfflineDone == fn_pc = "done" /\ fn_args.fn = "decode_frames_file"

LiveDone == fn_pc = "done" /\ fn_args.fn = "uart_publish"

\* the offline decoder emits no record for a frame with a field outside it and
\* counts one decode error for each such frame
OfflineNoPartial ==
    OfflineDone =>
        LET fields == fn_args.frame_spec.fields
            failed == {k \in 1..Len(FramedFrames) : FieldOutside(FramedFrames[k], fields)}
        IN  /\ \A k \in failed : \A j \in 1..Len(fn_ret.records) :
                   fn_ret.records[j]["_frame_idx"] # fn_ret.numbered[k]
            /\ fn_ret.decode_errors = Cardinality(failed)

\* the live pipeline emits nothing for a frame with a field outside it
LiveNoPartial ==
    LiveDone =>
        \A k \in 1..Len(fn_args.frames) :
            FieldOutside(fn_args.frames[k], fn_args.frame_spec.fields) =>
                \A j \in 1..Len(fn_ret.rows) :
                    fn_ret.rows[j]._frame_idx # fn_ret.numbered[k]

\* C25 (no partial emission): when decoding a frame fails on a field (resolved
\* offset negative, or offset + length beyond the frame end), no record, complete
\* or partial, is emitted for the frame and exactly one decode error is counted;
\* for the offline decoder and for the live pipeline's field decoder.
C25_NoPartialEmission == OfflineNoPartial /\ LiveNoPartial

\* the live pipeline published the point of a one-point frame whose field at
\* offset 9 lies outside it
C25_PartialPublished ==
    /\ LiveDone
    /\ fn_args.frame_spec.fields = Append(PointFields, SecondPointField)
    /\ fn_args.frames = <<PointFrameBytes(1, 10, 200)>>
    /\ Len(fn_ret.rows) = 1
    /\ fn_ret.rows[1]._frame_idx = 0

\* C26 (short reads): reading a scalar from fewer bytes than its type requires
\* fails rather than returning a value, so a frame with a field whose slice is
\* shorter than its type's width is counted as a decode error and gives no record.
C26_ShortReads ==
    OfflineDone =>
        LET fields == fn_args.frame_spec.fields
            short  == {k \in 1..Len(FramedFrames) :
                          /\ ~FieldOutside(FramedFrames[k], fields)
                          /\ FieldShort(FramedFrames[k], fields)}
        IN  /\ \A k \in short : \A j \in 1..Len(fn_ret.records) :
                   fn_ret.records[j]["_frame_idx"] # fn_ret.numbered[k]
            /\ fn_ret.decode_errors >= Cardinality(short)

\* a frame with a one-byte uint16_le field was decoded without error into a
\* record that holds None for the field
C26_NoneDecoded ==
    /\ OfflineDone
    /\ fn_args.frame_spec.fields = Append(PointFields, NarrowField)
    /\ fn_ret.total_frames = 1
    /\ fn_ret.decode_errors = 0
    /\ Len(fn_ret.records) = 1
    /\ fn_ret.records[1]["narrow"] = [none |-> TRUE]

-----------------------------------------------------------------------------
(* Claims about the life of a ring *)

\* the step obtains a handle that is not an owner's, or closes one
ReaderStep ==
    \/ /\ Len(handles') = Len(handles) + 1
       /\ ~handles'[Len(handles')].owner
    \/ /\ Len(handles') = Len(handles)
       /\ \E h \in 1..Len(handles) :
             /\ handles'[h].closes = handles[h].closes + 1
             /\ ~handles[h].owner

\* C18 (owner-only unlink): close_ring(unlink=True) unlinks the ring's segments
\* only when the handle was obtained by creating a ring; attaching a handle or
\* closing an attached handle, with or without unlink, leaves the ring in place.
C18_OwnerOnlyUnlink == [][ReaderStep => shm_ring' = shm_ring]_vars

\* an attached handle was closed with unlink = True and the producer's ring is
\* still there
C18_Witness ==
    /\ Len(handles) >= 2
    /\ handles[1].owner
    /\ shm_ring = 1
    /\ ~handles[2].owner
    /\ handles[2].closes = 1
    /\ handles[2].unlink_asked

-----------------------------------------------------------------------------
(* Claims about the framer *)

AllSentValid == \A i \in 1..Len(sent) : IsValidFrame(frame_spec, sent[i])

\* C1 (framer completeness): when the input is the concatenation of N valid frames,
\* frame_stream with checksum enabled returns having written exactly those N frames
\* in order, with frames_ok = N, frames_bad_checksum = 0 and resyncs = 0.
C1_FramerCompleteness ==
    (f_pc = "done" /\ scenario.kind = "clean" /\ enable_checksum /\ AllSentValid) =>
        /\ out_frames = sent
        /\ stats.frames_ok = Len(sent)
        /\ stats.frames_bad_checksum = 0
        /\ stats.resyncs = 0

C1_Witness ==
    /\ f_pc = "done" /\ scenario.kind = "clean" /\ enable_checksum /\ AllSentValid
    /\ Len(sent) = 2 /\ out_frames = sent /\ stats.frames_ok = 2
    /\ frame_spec.length.mode = "dynamic"

\* no occurrence of the header starts inside the k garbage bytes of the input
GarbageFormsNoHeader ==
    LET full == InputStream(sent, scenario)
        h    == frame_spec.header
    IN  \A i \in 0..(Len(scenario.garbage) - 1) : SubSeq(full, i + 1, i + Len(h)) # h

\* C2 (framer resync): when k > 0 garbage bytes that form no header are prepended to
\* a stream of N >= 1 valid frames, frame_stream returns with resyncs = 1 and has
\* written the same N frames, for every k, also k longer than a read chunk.
C2_FramerResync ==
    (/\ f_pc = "done" /\ scenario.kind = "garbage" /\ enable_checksum
     /\ AllSentValid /\ Len(sent) >= 1 /\ GarbageFormsNoHeader) =>
        /\ stats.resyncs = 1
        /\ out_frames = sent
        /\ stats.frames_ok = Len(sent)
        /\ stats.frames_bad_checksum = 0

C2_Witness ==
    /\ f_pc = "done" /\ scenario.kind = "garbage" /\ enable_checksum
    /\ AllSentValid /\ Len(sent) = 2 /\ GarbageFormsNoHeader
    /\ Len(scenario.garbage) > ChunkSize
    /\ stats.resyncs = 1 /\ out_frames = sent

\* C3 (framer robustness): when exactly one byte of frame c of a stream of valid
\* frames is corrupted, frame_stream drops at most that frame: it writes the frames
\* before c, at least N - 1 frames in all, and every frame after c.
C3_FramerRobustness ==
    (f_pc = "done" /\ scenario.kind = "corrupt" /\ enable_checksum /\ AllSentValid) =>
        LET c == scenario.frame
            n == Len(sent)
        IN  /\ Len(out_frames) >= n - 1
            /\ Take(out_frames, c - 1) = SubSeq(sent, 1, c - 1)
            /\ LastN(out_frames, n - c) = SubSeq(sent, c + 1, n)

\* the inner loop is about to take a complete frame whose stored checksum differs
\* from the computed one
BadFrameAtHead ==
    LET idx == Find(buf, frame_spec.header)
        b1  == Drop(buf, idx)
    IN  /\ f_pc = "scan"
        /\ enable_checksum /\ frame_spec.has_checksum
        /\ idx >= 0
        /\ ~total_length_raises(frame_spec.length, b1)
        /\ total_length(frame_spec.length, b1) >= 0
        /\ Len(b1) >= total_length(frame_spec.length, b1)
        /\ verify_checksum(Take(b1, total_length(frame_spec.length, b1)),
                           frame_spec.checksum) = "false"

\* the bytes behind the frame at the head of the buffer
BehindFrame ==
    LET b1 == Drop(buf, Find(buf, frame_spec.header))
    IN  Drop(b1, total_length(frame_spec.length, b1))

\* C19 (bad checksum): with checksum checking enabled, a complete frame whose stored
\* checksum differs from the computed one is not emitted, frames_bad_checksum
\* increases by exactly 1, frames_ok is unchanged, and framing continues with the
\* bytes behind that frame; on the input AA 55 01 02 03 AB (header AA 55, fixed
\* length 6, sum8 over [0, 4] stored at 5) the framer ends with
\* frames_bad_checksum = 1 and frames_ok = 0, and with last byte 05 with
\* frames_ok = 1.
C19_BadChecksum ==
    /\ [][BadFrameAtHead =>
            /\ out_frames' = out_frames
            /\ stats'.frames_bad_checksum = stats.frames_bad_checksum + 1
            /\ stats'.frames_ok = stats.frames_ok
            /\ f_pc' = "scan"
            /\ buf' = BehindFrame]_vars
    /\ []((f_pc = "done" /\ frame_spec = ExampleSpec) =>
            /\ InputStream(sent, scenario) = <<170, 85, 1, 2, 3, 171>> =>
                  stats.frames_bad_checksum = 1 /\ stats.frames_ok = 0
            /\ InputStream(sent, scenario) = <<170, 85, 1, 2, 3, 5>> =>
                  stats.frames_bad_checksum = 0 /\ stats.frames_ok = 1)

\* AA 55 01 02 03 AB followed by a valid frame: one bad frame, then the valid frame
\* is written
C19_Witness ==
    /\ f_pc = "done"
    /\ frame_spec = ExampleSpec
    /\ InputStream(sent, scenario) = <<170, 85, 1, 2, 3, 171, 170, 85, 1, 2, 3, 5>>
    /\ stats.frames_bad_checksum = 1
    /\ stats.frames_ok = 1
    /\ out_frames = <<<<170, 85, 1, 2, 3, 5>>>>

\* the length resolved for the header candidate at the head of the buffer is over
\* the cap of 65535 + header length
OverCapAtHead ==
    LET idx == Find(buf, frame_spec.header)
        b1  == Drop(buf, idx)
    IN  /\ f_pc = "scan"
        /\ idx >= 0
        /\ ~total_length_raises(frame_spec.length, b1)
        /\ total_length(frame_spec.length, b1) > 65535 + Len(frame_spec.header)

\* C20 (frame-size cap): when the total length resolved for a header candidate
\* exceeds the maximum frame size (65535 + header length), the framer counts a
\* resync, consumes exactly one byte of the candidate and goes on searching.
C20_FrameSizeCap ==
    [][OverCapAtHead =>
          /\ stats'.resyncs > stats.resyncs
          /\ buf' = Drop(Drop(buf, Find(buf, frame_spec.header)), 1)
          /\ f_pc' = "scan"]_vars

\* the framer has returned with an over-long candidate still in its buffer and has
\* written none of the frames that came in behind it
C20_Swallowed ==
    /\ f_pc = "done"
    /\ frame_spec = WideSpec
    /\ scenario.kind = "corrupt" /\ scenario.frame = 1 /\ scenario.off = 2
    /\ Len(sent) = 2
    /\ out_frames = <<>>
    /\ stats.resyncs = 0
    /\ Len(buf) = Len(InputStream(sent, scenario))


\* C28 (no error crosses a frame boundary): an error raised while a frame candidate
\* is processed (verify_checksum raising, a length field that cannot be parsed) is
\* counted and framing goes on; frame_stream never aborts: it ends only at the end
\* of the stream, with every candidate that raised counted.
C28_NoErrorCrossesFrame ==
    /\ f_pc \in {"read", "scan", "done"}
    /\ (f_pc = "done" /\ scenario.kind = "clean") =>
           /\ stream = <<>>
           /\ stats.frames_ok + stats.frames_bad_checksum = Len(sent)

\* the length field of the first candidate raised in parse_uint and frame_stream
\* ended with the second frame unread and nothing counted
C28_Aborted ==
    /\ f_pc = "raised"
    /\ frame_spec = MistypedSpec
    /\ Len(sent) = 2
    /\ scenario.kind = "clean"
    /\ stream # <<>>
    /\ stats.frames_ok = 0
    /\ stats.frames_bad_checksum = 0

\* the step is a header search that misses
HeaderMiss == f_pc = "scan" /\ Find(buf, frame_spec.header) < 0 /\ f_pc' = "read"

\* a beginning of the header at the end of the buffer is still at its end after
\* the step
PartialHeaderKept ==
    \A k \in 1..(Len(frame_spec.header) - 1) :
        (k <= Len(buf) /\ LastN(buf, k) = Take(frame_spec.header, k)) =>
            (k <= Len(buf') /\ LastN(buf', k) = LastN(buf, k))

\* C29 (header search miss), as the spec states it: when the buffer does not hold
\* the header, the framer keeps exactly the last len(header) - 1 bytes and discards
\* the older ones, and a header split across two reads is still found.
C29_HeaderSearchMiss ==
    [][HeaderMiss => /\ buf' = LastN(buf, Len(frame_spec.header) - 1)
                     /\ PartialHeaderKept]_vars

\* C29 as the code has it: on a miss the framer keeps the last len(header) bytes
\* (the whole buffer when it is no longer than the header) and discards the older
\* ones, so the beginning of a header split across two reads stays in the buffer.
C29_HeaderMissKeepsHeaderLength ==
    [][HeaderMiss => /\ buf' = LastN(buf, Len(frame_spec.header))
                     /\ PartialHeaderKept]_vars

\* after a miss on three garbage bytes the buffer holds two bytes, 0 and the first
\* byte of the header 55 AA, whose second byte is the next byte of the stream
C29_Witness ==
    /\ f_pc = "read"
    /\ frame_spec = DynamicSpec
    /\ scenario.kind = "garbage" /\ Len(scenario.garbage) = 2
    /\ buf = <<0, 85>>
    /\ stream # <<>> /\ stream[1] = 170
    /\ stats.total_bytes = 3

-----------------------------------------------------------------------------
(* Claims about the frame selector *)

\* the IF byte the command read, -1 when the sample has none at its place
IfByteRead ==
    LET start == IF fn_args.fn = "cmd_decode" THEN 0
                 ELSE IF fn_args.sample[1] = 165 THEN 0 ELSE 1
    IN  IF Len(fn_args.sample) < start + 3 \/ fn_args.sample[start + 1] # 165 THEN -1
        ELSE fn_args.sample[start + 3]

\* the key of (speed_present, brightness_present, brightness_is_u16)
KeyTable(speed, brightness, u16) ==
    (IF speed THEN "speed_dist_" ELSE "no_speed_dist_")
        \o (IF ~brightness THEN "only" ELSE IF u16 THEN "brightness_u16"
            ELSE "brightness_u8")

\* C30 (frame selector): for every IF byte and every setting of the three invert
\* flags the if_bits_v1 selector yields exactly one of the six keys, the one of
\* (speed_present, brightness_present, brightness_is_u16) after inversion, with
\* brightness_is_u16 ignored when brightness is absent; when the key has no mapped
\* frame name or the name matches no frame, the first frame of the protocol is used.
C30_FrameSelector ==
    (fn_pc = "done" /\ fn_args.fn \in {"cmd_align", "cmd_decode"} /\ IfByteRead >= 0) =>
        LET sel        == fn_args.selector
            speed      == ((IfByteRead \div 2) % 2 = 1) # sel.invert_speed_bit
            brightness == (IfByteRead % 2 = 1) # sel.invert_brightness_bit
            u16        == ((IfByteRead \div 4) % 2 = 1) # sel.invert_brightness_len_bit
            names      == {fn_args.frames[k] : k \in 1..Len(fn_args.frames)}
        IN  /\ fn_ret.key \in SelectorKeys
            /\ fn_ret.key = KeyTable(speed, brightness, u16)
            /\ fn_ret.frame = IF fn_ret.key \in DOMAIN sel.frames
                                 /\ sel.frames[fn_ret.key] \in names
                              THEN sel.frames[fn_ret.key]
                              ELSE fn_args.frames[1]

\* IF = 0x00 with all three flags inverted: speed, brightness, 16 bits wide; the
\* key is mapped to a frame the protocol does not have and the first frame is used
C30_Witness ==
    /\ fn_pc = "done"
    /\ fn_args.fn = "cmd_align"
    /\ fn_args.sample = <<0, 165, 1, 0>>
    /\ fn_args.selector.invert_speed_bit
    /\ fn_args.selector.invert_brightness_bit
    /\ fn_args.selector.invert_brightness_len_bit
    /\ DOMAIN fn_args.selector.frames = SelectorKeys
    /\ fn_ret.key = "speed_dist_brightness_u16"
    /\ fn_ret.frame = "base"

-----------------------------------------------------------------------------
(* Claims about the live producer's throttle *)

\* the time of the last publish before frame k (from 1), 0 when there is none
LastPublishBefore(k) ==
    LET earlier == {j \in 1..Len(fn_ret.emits) : fn_ret.emits[j].frame_idx < k - 1}
    IN  IF earlier = {} THEN 0
        ELSE fn_ret.emits[CHOOSE j \in earlier : \A i \in earlier : i <= j].at

\* the rows of frame k (from 1) in what was written to the ring
PublishedRows(k) == SelectSeq(fn_ret.rows, LAMBDA r : r._frame_idx = k - 1)

\* C31 (throttle): the rows of a frame are published only if at least 1/fps has
\* elapsed since the previous publish; otherwise they are skipped, not kept for a
\* later publish, while the frame index still advances; two consecutive publishes
\* are never less than 1/fps apart.
C31_Throttle ==
    (fn_args.fn = "uart_publish" /\ fn_args.sleep_s > 0) =>
        /\ \A k \in 1..Len(fn_ret.clock) :
               LET published == \E j \in 1..Len(fn_ret.emits) :
                                   fn_ret.emits[j].frame_idx = k - 1
               IN  /\ published =>
                          fn_ret.clock[k] - LastPublishBefore(k) >= fn_args.sleep_s
                   /\ ~published => PublishedRows(k) = <<>>
                   /\ fn_ret.numbered[k] = k - 1
        /\ fn_ret.frame_idx = Len(fn_ret.clock)
        /\ \A j \in 1..(Len(fn_ret.emits) - 1) :
               fn_ret.emits[j + 1].at - fn_ret.emits[j].at >= fn_args.sleep_s

\* three one-point frames at ticks 2, 3, 4 with 1/fps = 2 ticks: the first and the
\* third are published, the second is skipped
C31_Witness ==
    /\ fn_pc = "done"
    /\ fn_args.fn = "uart_publish"
    /\ fn_args.sleep_s = 2
    /\ fn_ret.clock = <<2, 3, 4>>
    /\ Len(fn_args.frames) = 3
    /\ Len(fn_ret.emits) = 2
    /\ fn_ret.emits[2].frame_idx = 2
    /\ Len(fn_ret.rows) = 2

\* C34 (framer termination): frame_stream terminates on every finite input for
\* every frame spec that loads: every iteration of the inner loop either removes
\* at least one byte from the buffer or leaves the loop, also when the resolved
\* total length is 0 or smaller than the header length.
C34_FramerProgress ==
    [][f_pc = "scan" => (Len(buf') < Len(buf) \/ f_pc' # "scan")]_vars

\* the loop has counted more frames than the stream has bytes
C34_Spinning ==
    /\ f_pc = "scan"
    /\ Find(buf, frame_spec.header) = 0
    /\ stats.frames_ok + stats.frames_bad_checksum > stats.total_bytes

-----------------------------------------------------------------------------
(* Claims that compare two runs of a framer *)

ScoreDone == fn_pc = "done" /\ fn_args.fn = "iter_frames"

\* C32 (score-only framer equivalence): for every byte sample and frame spec,
\* iter_frames returns the same (frames_ok, frames_bad_checksum, resyncs) as
\* frame_stream produces on the same bytes with the checksum enabled.
C32_ScoreOnlyEquivalence ==
    ScoreDone =>
        /\ f_pc = "done"
        /\ fn_ret.kind = "counts"
        /\ fn_ret.frames_ok = stats.frames_ok
        /\ fn_ret.frames_bad_checksum = stats.frames_bad_checksum
        /\ fn_ret.resyncs = stats.resyncs

\* a one-byte length field declared uint16_le: iter_frames counts both frames,
\* frame_stream ended in parse_uint's ValueError with nothing counted
C32_FramerRaisedOnly ==
    /\ ScoreDone
    /\ frame_spec = MistypedSpec
    /\ scenario.kind = "clean"
    /\ Len(sent) = 2
    /\ fn_ret.kind = "counts"
    /\ fn_ret.frames_ok = 2
    /\ f_pc = "raised"
    /\ stats.frames_ok = 0

\* frame_stream when one stream.read returns the whole stream: the inner loop
\* from buffer b until it breaks or raises
RECURSIVE scan_whole(_, _, _, _, _)
scan_whole(b, out, st, fs, enable) ==
    LET r == inner_iteration(b, out, st, fs, enable)
    IN  IF r.next = "scan" /\ Len(r.buf) < Len(b)
        THEN scan_whole(r.buf, r.out, r.stats, fs, enable)
        ELSE r

frame_whole(s, fs, enable) ==
    IF s = <<>> THEN [buf |-> <<>>, out |-> <<>>, stats |-> ZeroStats, next |-> "read"]
    ELSE scan_whole(s, <<>>, [ZeroStats EXCEPT !.total_bytes = Len(s)], fs, enable)

\* C35 (chunking independence): the frames frame_stream emits and its final
\* frames_ok, frames_bad_checksum and resyncs depend only on the concatenated
\* stream, not on how the reads split it into chunks.
C35_ChunkingIndependence ==
    f_pc \in {"done", "raised"} =>
        LET whole == frame_whole(InputStream(sent, scenario), frame_spec, enable_checksum)
        IN  /\ out_frames = whole.out
            /\ f_pc = "done" => whole.next = "read" /\ stats = whole.stats
            /\ f_pc = "raised" => whole.next = "raised"

\* two frames behind garbage, read in more than one chunk
C35_Witness ==
    /\ f_pc = "done"
    /\ frame_spec = DynamicSpec
    /\ stats.total_bytes > 2 * ChunkSize
    /\ stats.frames_ok = 2
    /\ stats.resyncs = 1
    /\ Len(out_frames) = 2

====
